---- MODULE Spec2Model ----
(***************************************************************************)
(* Model of the manual registration components of the choropleth map       *)
(* extractor front end:                                                    *)
(*   - ConusManualAlign.jsx : the rotatable quad, its drag controller,     *)
(*     the similarity projection of the overlay and the confirm payload;   *)
(*   - ConusOverlayPreview  : the legacy four-corner homography solver.    *)
(*                                                                         *)
(* Arithmetic.  The JavaScript code computes in floating point; the model  *)
(* computes over exact reals.  Display lengths are integers in units of    *)
(* 1/PX pixel.  Rotations are restricted to the angles whose sine and      *)
(* cosine are rational with denominator 5 (multiples of 90 degrees and the *)
(* 3-4-5 angles); an angle is stored as <<5 cos, 5 sin>>.  A pointer       *)
(* position is accepted by a move action only when the resulting quad is   *)
(* again representable in units (guards named Exact...).                   *)
(***************************************************************************)
EXTENDS Integers, Sequences, FiniteSets, TLC

VARIABLES
    img,                    \* the <img>: display size and natural size, in pixels
    initialConusSelection,  \* prop: NULL or <<[x, y, width, height]>> (natural pixels)
    mounted,                \* the component is on screen
    shapefileData,          \* NULL or <<[bounds |-> [xmin, xmax, ymin, ymax]]>>
    loading,
    error,
    imageLoaded,
    rect,                   \* NULL or <<[x, y, width, height]>> in display units
    rotation,               \* <<5 cos, 5 sin>> of the rotation angle
    draggingCorner,         \* "null", "tl", "tr", "br", "bl"
    draggingRotationHandle,
    isDraggingShapefile,
    dragStart,              \* NULL or <<[offsetX, offsetY]>> in half units
    listeners,              \* window listeners, in registration order
    event,                  \* the last event handled
    steps,                  \* number of events handled so far
    seedRect,               \* history: the quad as it was first seeded
    confirmed,              \* NULL or <<[rect4, bounds]>> handed to onConfirm
    proj,                   \* the projection experiment (SpecProject)
    hom,                    \* the homography experiment (SpecHomography)
    overlay,                \* the draw effect of an overlay canvas (SpecOverlay)
    preview,                \* ConusOverlayPreview: the four dragged corners (SpecPreview)
    county,                 \* ConusCountySelector: the collected points (SpecCounty)
    region,                 \* RegionSelector: which modal is shown (SpecRegion)
    upload                  \* Upload: the session of the upload page (SpecUpload)

alignVars == <<img, initialConusSelection, mounted, shapefileData, loading, error,
               imageLoaded, rect, rotation, draggingCorner, draggingRotationHandle,
               isDraggingShapefile, dragStart, listeners, event, steps,
               seedRect, confirmed>>

\* the state of the other components
panelVars == <<overlay, preview, county, region, upload>>

vars == <<alignVars, proj, hom, panelVars>>

----------------------------------------------------------------------------
(* Bounds and representation *)

\* units per display pixel (a corner drag of a rotated quad divides by 100)
PX == 10 * 10

\* at most this many events are handled in one session
MaxSteps == 7

NULL == << >>
Some(v) == <<v>>

Min(a, b) == IF a < b THEN a ELSE b
Max(a, b) == IF a > b THEN a ELSE b
Abs(a) == IF a < 0 THEN -a ELSE a

RECURSIVE Gcd(_, _)
Gcd(a, b) == IF b = 0 THEN a ELSE Gcd(b, a % b)

\* the rotations of the model: <<5 cos, 5 sin>>
Dirs == { <<5, 0>>, <<0, 5>>, <<-5, 0>>, <<0, -5>>,
          <<3, 4>>, <<4, 3>>, <<-3, 4>>, <<-4, 3>>,
          <<3, -4>>, <<4, -3>>, <<-3, -4>>, <<-4, -3>> }

\* the <img> elements of the model: display and natural size in pixels
Images == { [width |-> 200, height |-> 150, naturalWidth |-> 400, naturalHeight |-> 300] }

\* the bounds the backend may return with the shapefile (the last has no
\* height)
Extents == { [xmin |-> 0, xmax |-> 100, ymin |-> 0, ymax |-> 50],
             [xmin |-> 0, xmax |-> 100, ymin |-> 0, ymax |-> 25],
             [xmin |-> 0, xmax |-> 100, ymin |-> 10, ymax |-> 10] }

\* the initialConusSelection props of the model (natural pixels)
InitialSelections == { NULL, Some([x |-> 80, y |-> 90, width |-> 240, height |-> 120]) }

\* the cursor positions of the model, in pixels relative to the image
PointerPx == { <<100, 75>>, <<110, 80>>, <<130, 115>>, <<100, 20>>,
               <<40, 30>>, <<250, 200>> }

Pointers == { [x |-> p[1] * PX, y |-> p[2] * PX] : p \in PointerPx }

CornerKeys == <<"tl", "tr", "br", "bl">>

----------------------------------------------------------------------------
(* ConusManualAlign.jsx: geometry helpers *)

MIN_SIZE == 40

\* imageRef.current.getBoundingClientRect(), in units
imgRect == [width |-> img.width * PX, height |-> img.height * PX]

\* twice the center of r (the center itself may fall on a half unit)
getRectCenter(r) == [x |-> 2 * r.x + r.width, y |-> 2 * r.y + r.height]

\* the corners TL, TR, BR, BL of r rotated by angle, in tenths of a unit
getRotatedCorners(r, angle) ==
    IF r = NULL THEN << >>
    ELSE LET q == r[1]
             cos == angle[1]
             sin == angle[2]
             cx == 10 * q.x + 5 * q.width
             cy == 10 * q.y + 5 * q.height
             corners == << <<-q.width, -q.height>>, <<q.width, -q.height>>,
                           <<q.width, q.height>>, <<-q.width, q.height>> >>
         IN  [i \in 1..4 |->
                 LET x == corners[i][1]
                     y == corners[i][2]
                     xRot == x * cos - y * sin
                     yRot == x * sin + y * cos
                 IN  <<cx + xRot, cy + yRot>>]

getCorners == getRotatedCorners(rect, rotation)

\* (px, py) in the frame of r (centered, unrotated), in tenths of a unit
globalToLocal(px, py, r, angle) ==
    LET c == getRectCenter(r)
        dx == 2 * px - c.x
        dy == 2 * py - c.y
    IN  [x |-> dx * angle[1] + dy * angle[2],
         y |-> dy * angle[1] - dx * angle[2]]

\* the offset of the new center taken in the local frame, not rotated
RotateOffset_Unrotated(lx, ly, angle) == <<5 * lx, 5 * ly>>

\* offsetX, offsetY of the corner drag: the local center (lx, ly) rotated by
\* angle, times 5
RotateOffset(lx, ly, angle) ==
    <<lx * angle[1] - ly * angle[2], lx * angle[2] + ly * angle[1]>>

\* the setRect updater of the corner drag, applied to prev; the result is
\* scaled by 100 (hundredths of a unit)
ResizeCorner(prev, angle, corner, x, y) ==
    LET local == globalToLocal(x, y, prev, angle)
        m == 10 * MIN_SIZE * PX
        minX0 == -5 * prev.width
        maxX0 == 5 * prev.width
        minY0 == -5 * prev.height
        maxY0 == 5 * prev.height
        minX == IF corner \in {"tl", "bl"} THEN Min(local.x, maxX0 - m) ELSE minX0
        maxX == IF corner \in {"tr", "br"} THEN Max(local.x, minX0 + m) ELSE maxX0
        minY == IF corner \in {"tl", "tr"} THEN Min(local.y, maxY0 - m) ELSE minY0
        maxY == IF corner \in {"br", "bl"} THEN Max(local.y, minY0 + m) ELSE maxY0
        newWidth == Max(m, maxX - minX)
        newHeight == Max(m, maxY - minY)
        newCenterLocalX == minX + maxX
        newCenterLocalY == minY + maxY
        offsetX == RotateOffset(newCenterLocalX, newCenterLocalY, angle)[1]
        offsetY == RotateOffset(newCenterLocalX, newCenterLocalY, angle)[2]
        c == getRectCenter(prev)
        newCenterX == 50 * c.x + offsetX
        newCenterY == 50 * c.y + offsetY
    IN  [x |-> newCenterX - 5 * newWidth,
         y |-> newCenterY - 5 * newHeight,
         width |-> 10 * newWidth,
         height |-> 10 * newHeight]

\* TranslateRect with the cursor clamped to the image, as the corner drag does
TranslateRect_Clamped(prev, start, cursor) ==
    LET newCenterX == 2 * Max(0, Min(imgRect.width, cursor.x)) - start.offsetX
        newCenterY == 2 * Max(0, Min(imgRect.height, cursor.y)) - start.offsetY
    IN  [x |-> newCenterX - prev.width,
         y |-> newCenterY - prev.height,
         width |-> prev.width,
         height |-> prev.height]

\* the setRect updater of the whole-shape drag, applied to prev; the result
\* is scaled by 2 in x and y (half units)
TranslateRect(prev, start, cursor) ==
    LET newCenterX == 2 * cursor.x - start.offsetX
        newCenterY == 2 * cursor.y - start.offsetY
    IN  [x |-> newCenterX - prev.width,
         y |-> newCenterY - prev.height,
         width |-> prev.width,
         height |-> prev.height]

\* Math.atan2(dy, dx) as a rotation of the model; dy, dx not both 0 must be
\* parallel to one of Dirs (HasAtan2)
HasAtan2(dy, dx) ==
    \/ dx = 0 /\ dy = 0
    \/ \E d \in Dirs : dx * d[2] = dy * d[1] /\ dx * d[1] + dy * d[2] > 0

Atan2(dy, dx) ==
    IF dx = 0 /\ dy = 0 THEN <<5, 0>>
    ELSE CHOOSE d \in Dirs : dx * d[2] = dy * d[1] /\ dx * d[1] + dy * d[2] > 0

\* ray casting against the rotated corners; px, py in units
isPointInRect(px, py) ==
    LET corners == getRotatedCorners(rect, rotation)
        crosses(i, j) ==
            LET xi == corners[i][1]
                yi == corners[i][2]
                xj == corners[j][1]
                yj == corners[j][2]
                g == Gcd(Abs(xj - xi), Abs(yj - yi))
                ex == (xj - xi) \div g
                ey == (yj - yi) \div g
            IN  /\ (yi > 10 * py) # (yj > 10 * py)
                /\ IF ey > 0
                   THEN (10 * px - xi) * ey < ex * (10 * py - yi)
                   ELSE (10 * px - xi) * ey > ex * (10 * py - yi)
        hits == { i \in 1..4 : crosses(i, IF i = 1 THEN 4 ELSE i - 1) }
    IN  IF rect = NULL THEN FALSE
        ELSE IF Len(corners) # 4 THEN FALSE
        ELSE Cardinality(hits) % 2 = 1

----------------------------------------------------------------------------
(* ConusManualAlign.jsx: seeding and reset *)

\* the quad centered on the image, 0.4 of the largest fit of the bounds
\* (w / 0 is Infinity, so Math.min takes the other quotient when one
\* dimension of the bounds is 0)
FallbackRect(bounds) ==
    LET boundsWidth == bounds.xmax - bounds.xmin
        boundsHeight == bounds.ymax - bounds.ymin
        \* baseScale = Math.min(w / bw, h / bh) * 0.4 = 2 * num / (5 * den)
        byWidth == imgRect.width * boundsHeight <= imgRect.height * boundsWidth
        num == IF byWidth THEN imgRect.width ELSE imgRect.height
        den == IF byWidth THEN boundsWidth ELSE boundsHeight
        rectWidth == (boundsWidth * 2 * num) \div (5 * den)
        rectHeight == (boundsHeight * 2 * num) \div (5 * den)
    IN  [x |-> (imgRect.width - rectWidth) \div 2,
         y |-> (imgRect.height - rectHeight) \div 2,
         width |-> rectWidth,
         height |-> rectHeight]

\* the rect the seeding effect sets
SeedRect(data) ==
    IF initialConusSelection # NULL
    THEN LET sel == initialConusSelection[1]
         IN  [x |-> (sel.x * imgRect.width) \div img.naturalWidth,
              y |-> (sel.y * imgRect.height) \div img.naturalHeight,
              width |-> (sel.width * imgRect.width) \div img.naturalWidth,
              height |-> (sel.height * imgRect.height) \div img.naturalHeight]
    ELSE FallbackRect(data[1].bounds)

\* rect after the seeding effect has run on the new imageLoaded and data
Seeded(loaded, data) ==
    IF loaded /\ data # NULL /\ rect = NULL THEN Some(SeedRect(data)) ELSE rect

\* the history variable: the first quad the component holds
FirstSeed(r) == IF seedRect = NULL THEN r ELSE seedRect

----------------------------------------------------------------------------
(* ConusManualAlign.jsx: the drag effects and their window listeners *)

Armed(effect, dc, drh, ids, ds, r) ==
    CASE effect = "corner" -> dc # "null" /\ r # NULL
      [] effect = "rotation" -> drh /\ r # NULL
      [] effect = "whole" -> ids /\ ds # NULL /\ r # NULL

EffectOrder == <<"corner", "rotation", "whole">>

\* The listeners after a render: an effect whose dependencies changed is
\* cleaned up and, when its guard holds, registered again after the
\* listeners that stay; effects run in the order of their declaration.
Relisten(ls, changed, dc, drh, ids, ds, r) ==
    LET kept == SelectSeq(ls, LAMBDA e : e \notin changed)
        again == SelectSeq(EffectOrder,
                           LAMBDA e : e \in changed /\ Armed(e, dc, drh, ids, ds, r))
    IN  kept \o again

\* the effects that depend on a state variable
DepsOn(name) ==
    CASE name = "draggingCorner" -> {"corner"}
      [] name = "rotation" -> {"corner"}
      [] name = "rect" -> {"corner", "rotation", "whole"}
      [] name = "draggingRotationHandle" -> {"rotation"}
      [] name = "isDraggingShapefile" -> {"whole"}
      [] name = "dragStart" -> {"whole"}

Changed(names) == UNION { DepsOn(n) : n \in names }

Exact(r, k) == r.x % k = 0 /\ r.y % k = 0 /\ r.width % k = 0 /\ r.height % k = 0

Unscale(r, k) == [x |-> r.x \div k, y |-> r.y \div k,
                  width |-> r.width \div k, height |-> r.height \div k]

\* The rect after the queued setRect updaters of one move event, in the
\* order the listeners ran; NULL when a result is not representable.
RECURSIVE ApplyUpdaters(_, _, _)
ApplyUpdaters(ls, prev, cursor) ==
    IF ls = << >> THEN Some(prev)
    ELSE LET e == Head(ls)
         IN  IF e = "corner"
             THEN LET x == Max(0, Min(imgRect.width, cursor.x))
                      y == Max(0, Min(imgRect.height, cursor.y))
                      r == ResizeCorner(prev, rotation, draggingCorner, x, y)
                  IN  IF Exact(r, 100)
                      THEN ApplyUpdaters(Tail(ls), Unscale(r, 100), cursor)
                      ELSE NULL
             ELSE IF e = "whole"
             THEN LET r == TranslateRect(prev, dragStart[1], cursor)
                  IN  IF r.x % 2 = 0 /\ r.y % 2 = 0
                      THEN ApplyUpdaters(Tail(ls),
                                         [r EXCEPT !.x = r.x \div 2, !.y = r.y \div 2],
                                         cursor)
                      ELSE NULL
             ELSE ApplyUpdaters(Tail(ls), prev, cursor)

\* handleMouseUp of the whole drag without setDragStart(null)
ReleasedDragStart_Kept(hasWhole) == dragStart

\* dragStart after a mouseup: the whole drag's handleMouseUp clears it
ReleasedDragStart(hasWhole) == IF hasWhole THEN NULL ELSE dragStart

\* the angle the rotation drag computes for the cursor
\* the angle kept within a quarter turn of 0 degrees
RotationFor_Clamped(cursor) ==
    LET c == getRectCenter(rect[1])
        a == Atan2(2 * cursor.y - c.y, 2 * cursor.x - c.x)
    IN  IF a[1] < 0 THEN <<0, IF a[2] >= 0 THEN 5 ELSE -5>> ELSE a

RotationFor(cursor) ==
    LET c == getRectCenter(rect[1])
    IN  Atan2(2 * cursor.y - c.y, 2 * cursor.x - c.x)

RotationDefined(cursor) ==
    LET c == getRectCenter(rect[1])
    IN  HasAtan2(2 * cursor.y - c.y, 2 * cursor.x - c.x)

----------------------------------------------------------------------------
(* ConusManualAlign.jsx: confirm *)

\* Math.round(n / d) for d > 0
Round(n, d) == (2 * n + d) \div (2 * d)

\* handleConfirm without the display-to-natural scale
naturalCorners_Unscaled ==
    LET displayCorners == getCorners
    IN  [i \in 1..Len(displayCorners) |->
            << Round(displayCorners[i][1], 10 * PX), Round(displayCorners[i][2], 10 * PX) >>]

\* the rect4 handleConfirm passes: corners in natural pixels, rounded
naturalCorners ==
    LET displayCorners == getCorners
    IN  [i \in 1..Len(displayCorners) |->
            << Round(displayCorners[i][1] * img.naturalWidth, 10 * imgRect.width),
               Round(displayCorners[i][2] * img.naturalHeight, 10 * imgRect.height) >>]

----------------------------------------------------------------------------
(* ConusManualAlign.jsx: initial state and events *)

NoExperiment == [on |-> FALSE]

\* every event is one step of the session
Tick == steps < MaxSteps /\ steps' = steps + 1

\* no other component is on screen
NoPanels ==
    /\ overlay = NoExperiment
    /\ preview = NoExperiment
    /\ county = NoExperiment
    /\ region = NoExperiment
    /\ upload = NoExperiment

InitAlign ==
    /\ img \in Images
    /\ initialConusSelection \in InitialSelections
    /\ mounted = TRUE
    /\ shapefileData = NULL
    /\ loading = TRUE
    /\ error = "null"
    /\ imageLoaded = FALSE
    /\ rect = NULL
    /\ rotation = <<5, 0>>
    /\ draggingCorner = "null"
    /\ draggingRotationHandle = FALSE
    /\ isDraggingShapefile = FALSE
    /\ dragStart = NULL
    /\ listeners = << >>
    /\ event = "mount"
    /\ steps = 0
    /\ seedRect = NULL
    /\ confirmed = NULL

Init ==
    /\ InitAlign
    /\ proj = NoExperiment
    /\ hom = NoExperiment
    /\ NoPanels

\* fetchShapefile resolves with the GeoJSON and its bounds
FetchOk ==
    /\ Tick
    /\ mounted /\ loading
    /\ \E b \in Extents :
          LET data == Some([bounds |-> b])
              r == Seeded(imageLoaded, data)
          IN  /\ shapefileData' = data
              /\ rect' = r
              /\ seedRect' = FirstSeed(r)
    /\ loading' = FALSE
    /\ event' = "fetched"
    /\ UNCHANGED <<img, initialConusSelection, mounted, error, imageLoaded, rotation,
                   draggingCorner, draggingRotationHandle, isDraggingShapefile,
                   dragStart, listeners, confirmed, proj, hom, panelVars>>

\* fetchShapefile fails
FetchFail ==
    /\ Tick
    /\ mounted /\ loading
    /\ error' = "Failed to fetch shapefile data"
    /\ loading' = FALSE
    /\ event' = "fetch failed"
    /\ UNCHANGED <<img, initialConusSelection, mounted, shapefileData, imageLoaded,
                   rect, rotation, draggingCorner, draggingRotationHandle,
                   isDraggingShapefile, dragStart, listeners, seedRect,
                   confirmed, proj, hom, panelVars>>

\* <img onLoad>
ImageLoad ==
    /\ Tick
    /\ mounted /\ ~imageLoaded /\ error # "Failed to load image"
    /\ imageLoaded' = TRUE
    /\ LET r == Seeded(TRUE, shapefileData)
       IN  /\ rect' = r
           /\ seedRect' = FirstSeed(r)
           /\ listeners' = Relisten(listeners,
                                    IF r # rect THEN Changed({"rect"}) ELSE {},
                                    draggingCorner, draggingRotationHandle,
                                    isDraggingShapefile, dragStart, r)
    /\ event' = "image loaded"
    /\ UNCHANGED <<img, initialConusSelection, mounted, shapefileData, loading, error,
                   rotation, draggingCorner, draggingRotationHandle,
                   isDraggingShapefile, dragStart, confirmed, proj, hom, panelVars>>

\* <img onError>
ImageError ==
    /\ Tick
    /\ mounted /\ ~imageLoaded /\ error # "Failed to load image"
    /\ imageLoaded' = FALSE
    /\ error' = "Failed to load image"
    /\ event' = "image failed"
    /\ UNCHANGED <<img, initialConusSelection, mounted, shapefileData, loading, rect,
                   rotation, draggingCorner, draggingRotationHandle,
                   isDraggingShapefile, dragStart, listeners, seedRect,
                   confirmed, proj, hom, panelVars>>

\* the handles are drawn whatever the corners are
HandlesRendered_Always == TRUE

\* the corner and rotation handles are in the page only with four corners
HandlesRendered == Len(getCorners) = 4

\* a pointer-down on the container arms the whole-shape drag wherever it is
ArmsWhole_Anywhere(p) ==
    /\ rect # NULL
    /\ draggingCorner = "null"
    /\ ~draggingRotationHandle

\* the early returns and the hit test of handleShapefileMouseDown
ArmsWhole(p) ==
    /\ rect # NULL
    /\ draggingCorner = "null"
    /\ ~draggingRotationHandle
    /\ isPointInRect(p.x, p.y)

\* pointer-down on the handle of corner CornerKeys[i]
CornerMouseDown(i) ==
    /\ Tick
    /\ mounted
    /\ HandlesRendered
    /\ draggingCorner' = CornerKeys[i]
    /\ listeners' = Relisten(listeners,
                             IF draggingCorner # CornerKeys[i]
                             THEN Changed({"draggingCorner"}) ELSE {},
                             CornerKeys[i], draggingRotationHandle,
                             isDraggingShapefile, dragStart, rect)
    /\ event' = "down corner"
    /\ UNCHANGED <<img, initialConusSelection, mounted, shapefileData, loading, error,
                   imageLoaded, rect, rotation, draggingRotationHandle,
                   isDraggingShapefile, dragStart, seedRect, confirmed, proj, hom, panelVars>>

\* pointer-down on the rotation handle
RotationHandleMouseDown ==
    /\ Tick
    /\ mounted
    /\ HandlesRendered /\ rect # NULL
    /\ draggingRotationHandle' = TRUE
    /\ listeners' = Relisten(listeners,
                             IF ~draggingRotationHandle
                             THEN Changed({"draggingRotationHandle"}) ELSE {},
                             draggingCorner, TRUE, isDraggingShapefile, dragStart, rect)
    /\ event' = "down rotation"
    /\ UNCHANGED <<img, initialConusSelection, mounted, shapefileData, loading, error,
                   imageLoaded, rect, rotation, draggingCorner, isDraggingShapefile,
                   dragStart, seedRect, confirmed, proj, hom, panelVars>>

\* pointer-down on the image container, at cursor p
ShapefileMouseDown(p) ==
    /\ Tick
    /\ mounted
    /\ LET arm == ArmsWhole(p)
           c == getRectCenter(rect[1])
           start == Some([offsetX |-> 2 * p.x - c.x, offsetY |-> 2 * p.y - c.y])
       IN  IF arm
           THEN /\ isDraggingShapefile' = TRUE
                /\ dragStart' = start
                /\ listeners' = Relisten(listeners, Changed({"dragStart"}),
                                         draggingCorner, draggingRotationHandle,
                                         TRUE, start, rect)
           ELSE UNCHANGED <<isDraggingShapefile, dragStart, listeners>>
    /\ event' = "down image"
    /\ UNCHANGED <<img, initialConusSelection, mounted, shapefileData, loading, error,
                   imageLoaded, rect, rotation, draggingCorner, draggingRotationHandle,
                   seedRect, confirmed, proj, hom, panelVars>>

\* mousemove on the window, at cursor p: every registered handler runs
MouseMove(p) ==
    /\ Tick
    /\ mounted
    /\ IF listeners = << >>
       THEN UNCHANGED <<rect, rotation, listeners>>
       ELSE LET rotates == \E i \in 1..Len(listeners) : listeners[i] = "rotation"
                resizes == \E i \in 1..Len(listeners) : listeners[i] # "rotation"
                r == ApplyUpdaters(listeners, rect[1], p)
                a == IF rotates THEN RotationFor(p) ELSE rotation
            IN  /\ rotates => RotationDefined(p)
                /\ r # NULL
                /\ rect' = IF resizes THEN r ELSE rect
                /\ rotation' = a
                /\ listeners' = Relisten(listeners,
                                         Changed((IF resizes THEN {"rect"} ELSE {})
                                                 \cup (IF a # rotation THEN {"rotation"} ELSE {})),
                                         draggingCorner, draggingRotationHandle,
                                         isDraggingShapefile, dragStart,
                                         IF resizes THEN r ELSE rect)
    /\ event' = "move"
    /\ UNCHANGED <<img, initialConusSelection, mounted, shapefileData, loading, error,
                   imageLoaded, draggingCorner, draggingRotationHandle,
                   isDraggingShapefile, dragStart, seedRect, confirmed, proj, hom, panelVars>>

\* mouseup on the window: every registered handler runs
MouseUp ==
    /\ Tick
    /\ mounted
    /\ LET has(e) == \E i \in 1..Len(listeners) : listeners[i] = e
           dc == IF has("corner") THEN "null" ELSE draggingCorner
           drh == IF has("rotation") THEN FALSE ELSE draggingRotationHandle
           ids == IF has("whole") THEN FALSE ELSE isDraggingShapefile
           ds == ReleasedDragStart(has("whole"))
       IN  /\ draggingCorner' = dc
           /\ draggingRotationHandle' = drh
           /\ isDraggingShapefile' = ids
           /\ dragStart' = ds
           /\ listeners' = Relisten(listeners,
                                    Changed({ e \in {"draggingCorner"} : dc # draggingCorner }
                                            \cup { e \in {"draggingRotationHandle"} :
                                                      drh # draggingRotationHandle }
                                            \cup { e \in {"isDraggingShapefile"} :
                                                      ids # isDraggingShapefile }
                                            \cup { e \in {"dragStart"} : ds # dragStart }),
                                    dc, drh, ids, ds, rect)
    /\ event' = "up"
    /\ UNCHANGED <<img, initialConusSelection, mounted, shapefileData, loading, error,
                   imageLoaded, rect, rotation, seedRect, confirmed,
                   proj, hom, panelVars>>

\* the Reset button (pressed once the image has its layout size, or while
\* there is no shapefile yet)
Reset ==
    /\ Tick
    /\ mounted
    /\ shapefileData = NULL \/ imageLoaded
    /\ event' = "reset"
    /\ IF shapefileData # NULL
       THEN LET r == Some(FallbackRect(shapefileData[1].bounds))
            IN  /\ rect' = r
                /\ rotation' = <<5, 0>>
                /\ seedRect' = FirstSeed(r)
                /\ listeners' = Relisten(listeners, Changed({"rect"}),
                                         draggingCorner, draggingRotationHandle,
                                         isDraggingShapefile, dragStart, r)
       ELSE UNCHANGED <<rect, rotation, seedRect, listeners>>
    /\ UNCHANGED <<img, initialConusSelection, mounted, shapefileData, loading, error,
                   imageLoaded, draggingCorner, draggingRotationHandle,
                   isDraggingShapefile, dragStart, confirmed, proj, hom, panelVars>>

\* the component leaves the screen: its effects are cleaned up and its drag
\* state is discarded
Unmount ==
    /\ mounted' = FALSE
    /\ listeners' = << >>
    /\ draggingCorner' = "null"
    /\ draggingRotationHandle' = FALSE
    /\ isDraggingShapefile' = FALSE
    /\ dragStart' = NULL

\* the Confirm Alignment button; onConfirm closes the component
Confirm ==
    /\ Tick
    /\ mounted
    /\ ~(loading \/ error # "null" \/ shapefileData = NULL \/ rect = NULL)
    /\ confirmed' = Some([rect4 |-> naturalCorners, bounds |-> shapefileData[1].bounds])
    /\ Unmount
    /\ event' = "confirm"
    /\ UNCHANGED <<img, initialConusSelection, shapefileData, loading, error,
                   imageLoaded, rect, rotation, seedRect, proj, hom, panelVars>>

\* the Cancel button; onCancel closes the component
Cancel ==
    /\ Tick
    /\ mounted
    /\ Unmount
    /\ event' = "cancel"
    /\ UNCHANGED <<img, initialConusSelection, shapefileData, loading, error,
                   imageLoaded, rect, rotation, seedRect, confirmed, proj, hom, panelVars>>

Next ==
    \/ FetchOk
    \/ FetchFail
    \/ ImageLoad
    \/ ImageError
    \/ \E i \in 1..4 : CornerMouseDown(i)
    \/ RotationHandleMouseDown
    \/ \E p \in Pointers : ShapefileMouseDown(p)
    \/ \E p \in Pointers : MouseMove(p)
    \/ MouseUp
    \/ Reset
    \/ Confirm
    \/ Cancel

Spec == Init /\ [][Next]_vars

----------------------------------------------------------------------------
(* Claims about ConusManualAlign *)

Idle ==
    /\ draggingCorner = "null"
    /\ ~draggingRotationHandle
    /\ ~isDraggingShapefile
    /\ dragStart = NULL

OnlyCorner == draggingCorner # "null" /\ ~draggingRotationHandle /\ ~isDraggingShapefile
OnlyWhole == draggingCorner = "null" /\ ~draggingRotationHandle /\ isDraggingShapefile
OnlyRotation == draggingCorner = "null" /\ draggingRotationHandle /\ ~isDraggingShapefile

CornerIndex(key) == CHOOSE i \in 1..4 : CornerKeys[i] = key
Opposite(i) == IF i <= 2 THEN i + 2 ELSE i - 2

\* C1: in every reachable state the quad is at least MIN_SIZE wide and
\* MIN_SIZE high (after seeding, after Reset and after every drag move).
C1_MinSize ==
    rect # NULL => rect[1].width >= MIN_SIZE * PX /\ rect[1].height >= MIN_SIZE * PX

\* C2: a move event of a corner drag leaves the diagonally opposite corner of
\* the rotated quad where it was, for every corner, rotation and cursor.
C2_OppositeCornerFixed ==
    [][ (event' = "move" /\ OnlyCorner)
        => LET i == Opposite(CornerIndex(draggingCorner))
           IN  getRotatedCorners(rect', rotation')[i] = getRotatedCorners(rect, rotation)[i]
      ]_vars

\* a rotated quad has been resized by a corner drag with the MIN_SIZE clamp active
C2_Witness ==
    /\ event = "move" /\ OnlyCorner
    /\ rotation[1] # 0 /\ rotation[2] # 0
    /\ rect[1].width = MIN_SIZE * PX
    /\ rect # seedRect

\* C3: a move event of a whole-shape drag puts the center of the quad at the
\* cursor minus the offset recorded at pointer-down, wherever the cursor is;
\* the four corners shift by one and the same vector, and width, height and
\* rotation stay as they were.
C3_WholeDragTranslates ==
    [][ \A p \in Pointers :
          (OnlyWhole /\ MouseMove(p))
          => LET c == getRectCenter(rect'[1])
                 before == getRotatedCorners(rect, rotation)
                 after == getRotatedCorners(rect', rotation')
             IN  /\ c.x = 2 * p.x - dragStart[1].offsetX
                 /\ c.y = 2 * p.y - dragStart[1].offsetY
                 /\ \A i \in 1..4 :
                       /\ after[i][1] - before[i][1] = after[1][1] - before[1][1]
                       /\ after[i][2] - before[i][2] = after[1][2] - before[1][2]
                 /\ rect'[1].width = rect[1].width
                 /\ rect'[1].height = rect[1].height
                 /\ rotation' = rotation
      ]_vars

\* a whole-shape drag has carried the center of the quad out of the image
C3_Witness ==
    /\ event = "move" /\ OnlyWhole
    /\ rect # seedRect
    /\ getRectCenter(rect[1]).x > 2 * imgRect.width
    /\ getRectCenter(rect[1]).y > 2 * imgRect.height

\* C7: a pointer-up leaves the controller Idle (no corner, no rotation handle,
\* no whole drag, no dragStart) whatever was armed, and a move event handled
\* while Idle changes neither rect nor rotation.
C7_PointerUpIdles ==
    [][ /\ event' = "up" => Idle'
        /\ (Idle /\ event' = "move") => (rect' = rect /\ rotation' = rotation)
      ]_vars

\* a rotation drag turned the quad, a pointer-up ended it, and a move came after
C7_Witness ==
    /\ event = "move" /\ Idle
    /\ listeners = << >>
    /\ rect # NULL /\ rotation # <<5, 0>>

\* C8: after Reset the corners are those of the quad as first seeded and the
\* rotation is 0, whichever way the quad was seeded.
C8_ResetRestoresSeed ==
    (event = "reset" /\ rect # NULL)
    => /\ getRotatedCorners(rect, rotation) = getRotatedCorners(seedRect, <<5, 0>>)
       /\ rotation = <<5, 0>>

\* C9: the corners of getRotatedCorners are, in this order, the center plus
\* the rotation of (-w/2,-h/2), (w/2,-h/2), (w/2,h/2), (-w/2,h/2); the rect4
\* handed to onConfirm holds, in the same order, each corner scaled by
\* naturalWidth/displayWidth and naturalHeight/displayHeight and rounded to
\* the nearest integer.
C9_CornerOrderAndPayload ==
    LET signs == << <<-1, -1>>, <<1, -1>>, <<1, 1>>, <<-1, 1>> >>
        corners == getCorners
    IN  /\ rect # NULL =>
            /\ Len(corners) = 4
            /\ \A i \in 1..4 :
                  LET dx == corners[i][1] - (10 * rect[1].x + 5 * rect[1].width)
                      dy == corners[i][2] - (10 * rect[1].y + 5 * rect[1].height)
                  IN  /\ dx * rotation[1] + dy * rotation[2]
                            = 25 * signs[i][1] * rect[1].width
                      /\ dy * rotation[1] - dx * rotation[2]
                            = 25 * signs[i][2] * rect[1].height
        /\ confirmed # NULL =>
            /\ Len(confirmed[1].rect4) = 4
            /\ \A i \in 1..4 :
                  LET dw == 10 * imgRect.width
                      dh == 10 * imgRect.height
                      ex == confirmed[1].rect4[i][1] * dw - corners[i][1] * img.naturalWidth
                      ey == confirmed[1].rect4[i][2] * dh - corners[i][2] * img.naturalHeight
                  IN  /\ -dw < 2 * ex /\ 2 * ex <= dw
                      /\ -dh < 2 * ey /\ 2 * ey <= dh

\* a rotated, dragged quad has been confirmed
C9_Witness ==
    /\ confirmed # NULL
    /\ rotation[1] # 0 /\ rotation[2] # 0
    /\ rect # seedRect

----------------------------------------------------------------------------
(* ConusManualAlign.jsx: the similarity projection of the draw effect.     *)
(* Here a quad is given in pixels, so getRotatedCorners returns tenths of  *)
(* a pixel; a geographic point is given doubled, <<2 x, 2 y>>, so that the *)
(* center of the bounds is a point of the model; a projected coordinate is *)
(* a rational number of tenths of a pixel.                                 *)

\* the rational n / d in lowest terms, <<numerator, denominator>> with denominator > 0
Rat(n, d) ==
    LET g == Gcd(Abs(n), Abs(d))
        s == IF d < 0 THEN -1 ELSE 1
    IN  <<(s * n) \div g, (s * d) \div g>>

\* Math.sqrt(ex * ex + ey * ey) for an edge whose length is a whole number
Hypot(ex, ey) == CHOOSE r \in 0..(Abs(ex) + Abs(ey)) : r * r = ex * ex + ey * ey

\* the quads of the projection experiment, in pixels
ProjQuads == { [x |-> 150, y |-> 125, width |-> 100, height |-> 50],
               [x |-> 60, y |-> 55, width |-> 80, height |-> 40],
               [x |-> 70, y |-> 45, width |-> 60, height |-> 60] }

\* the bounds of the projection experiment
ProjExtents == Extents \cup { [xmin |-> -120, xmax |-> -60, ymin |-> 20, ymax |-> 50],
                              [xmin |-> 7, xmax |-> 7, ymin |-> 0, ymax |-> 10] }

\* srcCenter taken at the lower-left of the bounds
srcCenter_Min(bounds) == <<2 * bounds.xmin, 2 * bounds.ymin>>

\* twice (srcCenterX, srcCenterY)
srcCenter(bounds) == <<bounds.xmin + bounds.xmax, bounds.ymin + bounds.ymax>>

\* step 2 left out
flipY_None(py) == py

\* step 2 of projectPoint: py = -py
flipY(py) == -py

\* projectPoint(x, y) of the draw effect for bounds, quad r and rotation
\* angle; pt = <<2 x, 2 y>>
projectPoint(bounds, r, angle, pt) ==
    LET boundsWidth == IF bounds.xmax - bounds.xmin = 0 THEN 1
                       ELSE bounds.xmax - bounds.xmin
        boundsHeight == IF bounds.ymax - bounds.ymin = 0 THEN 1
                        ELSE bounds.ymax - bounds.ymin
        rotatedCorners == getRotatedCorners(Some(r), angle)
        c == srcCenter(bounds)
        \* four times dstCenterX, dstCenterY
        dstX4 == rotatedCorners[1][1] + rotatedCorners[2][1]
                 + rotatedCorners[3][1] + rotatedCorners[4][1]
        dstY4 == rotatedCorners[1][2] + rotatedCorners[2][2]
                 + rotatedCorners[3][2] + rotatedCorners[4][2]
        edge0X == rotatedCorners[2][1] - rotatedCorners[1][1]
        edge0Y == rotatedCorners[2][2] - rotatedCorners[1][2]
        a == Atan2(edge0Y, edge0X)
        dstEdge0Length == Hypot(edge0X, edge0Y)
        edge1X == rotatedCorners[4][1] - rotatedCorners[1][1]
        edge1Y == rotatedCorners[4][2] - rotatedCorners[1][2]
        dstEdge1Length == Hypot(edge1X, edge1Y)
        \* steps 1 and 2 (doubled)
        px == pt[1] - c[1]
        py == flipY(pt[2] - c[2])
        \* step 3 (times 10)
        pxRot == px * a[1] - py * a[2]
        pyRot == px * a[2] + py * a[1]
        \* steps 4 and 5: pxRot * scaleX + dstCenterX, scaleX = length / boundsWidth
    IN  [x |-> Rat(4 * pxRot * dstEdge0Length + 10 * boundsWidth * dstX4,
                   40 * boundsWidth),
         y |-> Rat(4 * pyRot * dstEdge1Length + 10 * boundsHeight * dstY4,
                   40 * boundsHeight)]

\* the corners of the bounds: upper left, upper right, lower right, lower left
ExtentCorners(bounds) ==
    << <<2 * bounds.xmin, 2 * bounds.ymax>>, <<2 * bounds.xmax, 2 * bounds.ymax>>,
       <<2 * bounds.xmax, 2 * bounds.ymin>>, <<2 * bounds.xmin, 2 * bounds.ymin>> >>

\* the coordinates a feature of the experiment may hold
GeoPoints(bounds) ==
    { ExtentCorners(bounds)[i] : i \in 1..4 }
    \cup { <<bounds.xmin + bounds.xmax, bounds.ymin + bounds.ymax>>,
           <<2 * bounds.xmin + 3, 2 * bounds.ymin + 1>>,
           <<2 * bounds.xmax + 4, 2 * bounds.ymax - 6>> }

InitProject ==
    /\ InitAlign
    /\ hom = NoExperiment
    /\ NoPanels
    /\ \E b \in ProjExtents, q \in ProjQuads, a \in Dirs :
          proj = [on |-> TRUE, bounds |-> b, rect |-> q, rotation |-> a,
                  point |-> NULL, pixel |-> NULL]

\* the draw effect projects one coordinate of a feature
ProjectPoint(pt) ==
    /\ proj.on
    /\ proj' = [proj EXCEPT !.point = Some(pt),
                            !.pixel = Some(projectPoint(proj.bounds, proj.rect,
                                                        proj.rotation, pt))]
    /\ UNCHANGED <<alignVars, hom, panelVars>>

NextProject == \E pt \in GeoPoints(proj.bounds) : ProjectPoint(pt)

SpecProject == InitProject /\ [][NextProject]_vars

\* the corners of the quad of the experiment as projected coordinates
QuadCornerPixels ==
    LET corners == getRotatedCorners(Some(proj.rect), proj.rotation)
    IN  [i \in 1..4 |-> [x |-> Rat(corners[i][1], 1), y |-> Rat(corners[i][2], 1)]]

\* C4: whatever the quad and its rotation, each corner of bounds of positive
\* width and height is projected onto the corner of the quad with the same
\* index (TL, TR, BR, BL).
C4_ExtentCornersOnQuadCorners ==
    \A i \in 1..4 :
        (/\ proj.on
         /\ proj.bounds.xmin < proj.bounds.xmax
         /\ proj.bounds.ymin < proj.bounds.ymax
         /\ proj.point = Some(ExtentCorners(proj.bounds)[i]))
        => proj.pixel = Some(QuadCornerPixels[i])

C5_Scenario ==
    /\ proj.on
    /\ proj.bounds = [xmin |-> 0, xmax |-> 100, ymin |-> 0, ymax |-> 50]
    /\ proj.rect = [x |-> 150, y |-> 125, width |-> 100, height |-> 50]
    /\ proj.rotation = <<5, 0>>
    /\ proj.point = Some(<<0, 100>>)

\* C5: with bounds {0, 100, 0, 50} and the unrotated quad of width 100 and
\* height 50 centered at (200, 150), the point (0, 50) is projected to the
\* pixel (150, 125).
C5_ScenarioPixel ==
    C5_Scenario => proj.pixel = Some([x |-> <<1500, 1>>, y |-> <<1250, 1>>])

\* the point (0, 50) of the scenario has been projected
C5_Witness == C5_Scenario /\ proj.pixel # NULL

\* C6: whatever the quad and its rotation, the center of the bounds is
\* projected to the center of the quad, (x + width / 2, y + height / 2).
C6_CenterOnCenter ==
    (proj.on /\ proj.point = Some(<<proj.bounds.xmin + proj.bounds.xmax,
                                    proj.bounds.ymin + proj.bounds.ymax>>))
    => proj.pixel = Some([x |-> Rat(10 * proj.rect.x + 5 * proj.rect.width, 1),
                          y |-> Rat(10 * proj.rect.y + 5 * proj.rect.height, 1)])

\* the center of bounds has been projected for a quad turned by an angle
\* that is no multiple of 90 degrees and whose proportions are not those of
\* the bounds
C6_Witness ==
    /\ proj.on
    /\ proj.pixel # NULL
    /\ proj.point = Some(<<proj.bounds.xmin + proj.bounds.xmax,
                           proj.bounds.ymin + proj.bounds.ymax>>)
    /\ proj.rotation[1] # 0 /\ proj.rotation[2] # 0
    /\ proj.rect.width * (proj.bounds.ymax - proj.bounds.ymin)
          # proj.rect.height * (proj.bounds.xmax - proj.bounds.xmin)

----------------------------------------------------------------------------
(* ConusOverlayPreview: computeHomography.  The solver iterates on a       *)
(* vector that it divides by its norm after every round; the model keeps   *)
(* the vector up to a positive factor, as integers without a common        *)
(* divisor.  Math.random() is a free choice of the start vector.  An entry *)
(* of the normalized vector is below 1e-10 in magnitude, in the model,     *)
(* when it is 0.                                                           *)

\* rounds of the refinement loop the model runs (the code runs 50)
MaxIter == 3

RECURSIVE Sum(_)
Sum(s) == IF s = << >> THEN 0 ELSE Head(s) + Sum(Tail(s))

RECURSIVE GcdSeq(_)
GcdSeq(s) == IF s = << >> THEN 0 ELSE Gcd(Abs(Head(s)), GcdSeq(Tail(s)))

\* the correspondences handed to the solver: src4 and dst4
Correspondences ==
    { [src4 |-> << <<0, 0>>, <<0, 0>>, <<0, 0>>, <<0, 0>> >>,
       dst4 |-> << <<5, 0>>, <<-5, 0>>, <<0, 5>>, <<0, -5>> >>],
      [src4 |-> << <<0, 0>>, <<1, 0>>, <<2, 0>>, <<1, 1>> >>,
       dst4 |-> << <<0, 0>>, <<1, 0>>, <<2, 0>>, <<1, 1>> >>],
      [src4 |-> << <<0, 0>>, <<1, 0>>, <<1, 1>>, <<0, 1>> >>,
       dst4 |-> << <<0, 0>>, <<2, 0>>, <<2, 2>>, <<0, 2>> >>] }

\* the start vectors Math.random() may give, up to a positive factor
RandomVectors == [1..9 -> {-1, 1}]

\* the 8 x 9 matrix A
BuildA(src4, dst4) ==
    LET rowX(i) == LET x == src4[i][1]
                       y == src4[i][2]
                       X == dst4[i][1]
                   IN  <<x, y, 1, 0, 0, 0, -X * x, -X * y, -X>>
        rowY(i) == LET x == src4[i][1]
                       y == src4[i][2]
                       Y == dst4[i][2]
                   IN  <<0, 0, 0, x, y, 1, -Y * x, -Y * y, -Y>>
    IN  [n \in 1..8 |-> IF n % 2 = 1 THEN rowX((n + 1) \div 2) ELSE rowY(n \div 2)]

\* A^T A
BuildAtA(A) ==
    [j \in 1..9 |-> [k \in 1..9 |-> Sum([i \in 1..8 |-> A[i][j] * A[i][k]])]]

\* vNew = v - alpha * (AtA v) with alpha = 0.01, times 100
Refine(AtA, v) ==
    [i \in 1..9 |-> 100 * v[i] - Sum([j \in 1..9 |-> AtA[i][j] * v[j]])]

\* v / norm, up to a positive factor
Normalized(v) == LET g == GcdSeq(v) IN [i \in 1..9 |-> v[i] \div g]

IdentityMatrix ==
    << << <<1, 1>>, <<0, 1>>, <<0, 1>> >>,
       << <<0, 1>>, <<1, 1>>, <<0, 1>> >>,
       << <<0, 1>>, <<0, 1>>, <<1, 1>> >> >>

\* what computeHomography returns for the vector v the loop ended with
Normalization(v) ==
    LET scale == v[9]
    IN  IF scale = 0
        THEN [kind |-> "matrix", H |-> IdentityMatrix]
        ELSE [kind |-> "matrix",
              H |-> [row \in 1..3 |->
                       [col \in 1..3 |-> Rat(v[3 * (row - 1) + col], scale)]]]

InitHomography ==
    /\ InitAlign
    /\ proj = NoExperiment
    /\ NoPanels
    /\ \E c \in Correspondences, v0 \in RandomVectors :
          hom = [on |-> TRUE, src4 |-> c.src4, dst4 |-> c.dst4,
                 AtA |-> BuildAtA(BuildA(c.src4, c.dst4)),
                 v |-> Normalized(v0), iter |-> 0, pc |-> "loop", result |-> NULL,
                 previous |-> NULL]

\* one round of the refinement loop
Iterate ==
    /\ hom.on /\ hom.pc = "loop" /\ hom.iter < MaxIter
    /\ LET vNew == Refine(hom.AtA, hom.v)
       IN  IF \A i \in 1..9 : vNew[i] = 0
           THEN hom' = [hom EXCEPT !.pc = "reshape"]
           ELSE hom' = [hom EXCEPT !.v = Normalized(vNew), !.iter = hom.iter + 1]
    /\ UNCHANGED <<alignVars, proj, panelVars>>

\* the loop is over: reshape, normalize and return
Return ==
    /\ hom.on
    /\ hom.pc = "reshape" \/ (hom.pc = "loop" /\ hom.iter = MaxIter)
    /\ hom' = [hom EXCEPT !.pc = "returned", !.result = Some(Normalization(hom.v))]
    /\ UNCHANGED <<alignVars, proj, panelVars>>

\* the start vectors Math.random() may give a later call
SecondVectors == {v0 \in RandomVectors : \A i \in 1..8 : v0[i] = 1}

\* the next redraw calls computeHomography with the same src4 and dst4: the
\* matrices A and AtA are built again and a new start vector is drawn
CallAgain ==
    /\ hom.on /\ hom.pc = "returned" /\ hom.previous = NULL
    /\ \E v0 \in SecondVectors :
          hom' = [hom EXCEPT !.AtA = BuildAtA(BuildA(hom.src4, hom.dst4)),
                             !.v = Normalized(v0), !.iter = 0, !.pc = "loop",
                             !.result = NULL, !.previous = hom.result]
    /\ UNCHANGED <<alignVars, proj, panelVars>>

NextHomography == Iterate \/ Return \/ CallAgain

SpecHomography == InitHomography /\ [][NextHomography]_vars

\* C10: when the entry H[2][2] the solver normalizes by is below 1e-10 in
\* magnitude, computeHomography returns an error and no matrix.
C10_DegenerateReportsError ==
    (hom.on /\ hom.pc = "returned" /\ hom.v[9] = 0)
    => hom.result[1].kind = "error"

----------------------------------------------------------------------------
(* The draw effects of ConusManualAlign and ConusOverlayPreview: the loop  *)
(* over the features of the GeoJSON.  A vertex of the canvas path is a     *)
(* pair of rationals, in display pixels.  A matrix entry is a rational; a  *)
(* denominator w is below 1e-10 in magnitude, in the model, when it is 0.  *)

RInt(n) == <<n, 1>>
\* sum, product and quotient of rationals in lowest terms; common factors
\* are taken out before multiplying, which keeps the integers small
RAdd(a, b) ==
    LET g == Gcd(a[2], b[2])
    IN  Rat(a[1] * (b[2] \div g) + b[1] * (a[2] \div g), (a[2] \div g) * b[2])
RMul(a, b) ==
    LET g == Gcd(Abs(a[1]), b[2])
        h == Gcd(Abs(b[1]), a[2])
    IN  Rat((a[1] \div g) * (b[1] \div h), (a[2] \div h) * (b[2] \div g))
RDiv(a, b) == RMul(a, Rat(b[2], b[1]))

\* w = H[2][0] * x + H[2][1] * y + H[2][2]
Denominator(x, y, H) ==
    RAdd(RAdd(RMul(H[3][1], RInt(x)), RMul(H[3][2], RInt(y))), H[3][3])

\* applyHomography(x, y, H)
applyHomography(x, y, H) ==
    LET w == Denominator(x, y, H)
    IN  IF w[1] = 0 THEN [x |-> RInt(0), y |-> RInt(0)]
        ELSE [x |-> RDiv(RAdd(RAdd(RMul(H[1][1], RInt(x)), RMul(H[1][2], RInt(y))),
                              H[1][3]), w),
              y |-> RDiv(RAdd(RAdd(RMul(H[2][1], RInt(x)), RMul(H[2][2], RInt(y))),
                              H[2][3]), w)]

\* features per collection
MaxFeatures == 3

\* the geometries a feature of the model may hold; NULL is a feature
\* without geometry
Geometries ==
    { NULL,
      Some([type |-> "LineString", coordinates |-> << <<0, 0>>, <<1, 0>> >>]),
      Some([type |-> "MultiLineString",
            coordinates |-> << << <<2, 1>>, <<1, 3>> >>, << <<0, 2>> >> >>]),
      Some([type |-> "Polygon", coordinates |-> << << <<0, 0>>, <<1, 0>>, <<0, 0>> >> >>]),
      Some([type |-> "Point", coordinates |-> <<1, 1>>]) }

FeatureCollections == UNION { [1..n -> Geometries] : n \in 0..MaxFeatures }

\* the vectors the refinement loop of computeHomography may end with
LoopVectors ==
    { <<1, 0, 0, 0, 1, 0, 0, 0, 1>>,
      <<4, 0, 2, 0, 4, 6, -2, 0, 2>>,
      <<3, 1, 0, 0, 2, 5, 0, 0, 0>> }

\* the lines of a geometry the loop draws: << >> for a type it skips
LinesOf(geom) ==
    IF geom.type = "LineString" THEN <<geom.coordinates>>
    ELSE IF geom.type = "MultiLineString" THEN geom.coordinates
    ELSE << >>

\* the pixel of a coordinate, in display pixels
VertexPixel(o, pt) ==
    IF o.component = "ConusManualAlign"
    THEN LET q == projectPoint(o.bounds, o.rect, o.rotation, <<2 * pt[1], 2 * pt[2]>>)
         IN  [x |-> RDiv(q.x, RInt(10)), y |-> RDiv(q.y, RInt(10))]
    ELSE LET pixel == applyHomography(pt[1], pt[2], o.H)
             displayScaleX == Rat(img.width, img.naturalWidth)
             displayScaleY == Rat(img.height, img.naturalHeight)
         IN  [x |-> RMul(pixel.x, displayScaleX), y |-> RMul(pixel.y, displayScaleY)]

\* moveTo for the first coordinate of a line, lineTo for the others
RECURSIVE LinePath(_, _, _)
LinePath(o, line, i) ==
    IF i > Len(line) THEN << >>
    ELSE LET pixel == VertexPixel(o, line[i])
         IN  << [op |-> IF i = 1 THEN "moveTo" ELSE "lineTo",
                 x |-> pixel.x, y |-> pixel.y, from |-> line[i]] >>
             \o LinePath(o, line, i + 1)

RECURSIVE LinesPath(_, _)
LinesPath(o, lines) ==
    IF lines = << >> THEN << >>
    ELSE LinePath(o, Head(lines), 1) \o LinesPath(o, Tail(lines))

InitOverlay ==
    /\ InitAlign
    /\ proj = NoExperiment
    /\ hom = NoExperiment
    /\ preview = NoExperiment
    /\ county = NoExperiment
    /\ region = NoExperiment
    /\ upload = NoExperiment
    /\ \E fs \in FeatureCollections :
          \/ \E v \in LoopVectors :
                overlay = [on |-> TRUE, component |-> "ConusOverlayPreview",
                           H |-> Normalization(v).H, features |-> fs, next |-> 1,
                           path |-> << >>, status |-> "drawing"]
          \/ \E a \in {<<5, 0>>, <<3, 4>>} :
                overlay = [on |-> TRUE, component |-> "ConusManualAlign",
                           bounds |-> [xmin |-> 0, xmax |-> 100, ymin |-> 0, ymax |-> 50],
                           rect |-> [x |-> 150, y |-> 125, width |-> 100, height |-> 50],
                           rotation |-> a, features |-> fs, next |-> 1,
                           path |-> << >>, status |-> "drawing"]

\* one round of "for (const feature of features)"
DrawFeature ==
    /\ overlay.on /\ overlay.status = "drawing"
    /\ overlay.next <= Len(overlay.features)
    /\ LET geom == overlay.features[overlay.next]
       IN  IF geom = NULL
           THEN \* geom.type on a missing geometry: TypeError, the effect ends
                overlay' = [overlay EXCEPT !.status = "threw"]
           ELSE overlay' = [overlay EXCEPT
                              !.path = @ \o LinesPath(overlay, LinesOf(geom[1])),
                              !.next = @ + 1]
    /\ UNCHANGED <<alignVars, proj, hom, preview, county, region, upload>>

\* the loop is over: ctx.stroke()
Stroke ==
    /\ overlay.on /\ overlay.status = "drawing"
    /\ overlay.next > Len(overlay.features)
    /\ overlay' = [overlay EXCEPT !.status = "stroked"]
    /\ UNCHANGED <<alignVars, proj, hom, preview, county, region, upload>>

NextOverlay == DrawFeature \/ Stroke

SpecOverlay == InitOverlay /\ [][NextOverlay]_vars

\* C11: no vertex of the path of ConusOverlayPreview comes from a coordinate
\* whose projective denominator is below 1e-10 in magnitude: applyHomography
\* reports such a point as undefined instead of returning (0, 0).
C11_NoPlaceholderVertex ==
    (overlay.on /\ overlay.component = "ConusOverlayPreview")
    => \A k \in 1..Len(overlay.path) :
          Denominator(overlay.path[k].from[1], overlay.path[k].from[2], overlay.H)[1] # 0

\* the lines of the first n features that the loop draws
RECURSIVE DrawableLines(_, _)
DrawableLines(fs, n) ==
    IF n = 0 THEN 0
    ELSE DrawableLines(fs, n - 1)
         + (IF fs[n] = NULL THEN 0 ELSE Len(LinesOf(fs[n][1])))

\* C16: the loop raises no error on a feature whose geometry is missing or
\* of another type than LineString and MultiLineString, and once it is over
\* every line of every LineString and MultiLineString feature is on the path.
C16_UnknownFeaturesSkipped ==
    overlay.on =>
        /\ overlay.status # "threw"
        /\ overlay.status = "stroked" =>
              Cardinality({ k \in 1..Len(overlay.path) : overlay.path[k].op = "moveTo" })
                 = DrawableLines(overlay.features, Len(overlay.features))

----------------------------------------------------------------------------
(* ConusCountySelector.jsx: the four clicked points and the alignment the  *)
(* backend computes from them.  A compute request in flight carries the    *)
(* points it was issued with.                                              *)

\* compute requests that may be in flight at once
MaxRequests == 1

SUGGESTED_COUNTIES ==
    << [name |-> "Clallam County, Washington", geoid |-> "53009"],
       [name |-> "Miami-Dade County, Florida", geoid |-> "12086"],
       [name |-> "Cameron County, Texas", geoid |-> "48061"],
       [name |-> "Aroostook County, Maine", geoid |-> "23003"] >>

\* the places of the image the user clicks, in display pixels
ClickPx == { <<30, 20>>, <<170, 120>> }

\* newPoint with the step counted from 1
NewPoint_StepFromOne(points, x, y) ==
    LET currentStep == Len(points)
        c == SUGGESTED_COUNTIES[currentStep + 1]
    IN  [x |-> x, y |-> y, countyName |-> c.name, geoid |-> c.geoid,
         step |-> currentStep + 1]

\* newPoint of handleImageClick; x, y in natural pixels
NewPoint(points, x, y) ==
    LET currentStep == Len(points)
        c == SUGGESTED_COUNTIES[currentStep + 1]
    IN  [x |-> x, y |-> y, countyName |-> c.name, geoid |-> c.geoid,
         step |-> currentStep]

\* the component as it is mounted
CountyMounted ==
    [on |-> TRUE, mounted |-> TRUE, shapefileData |-> FALSE,
     loading |-> TRUE, error |-> "null", selectedPoints |-> << >>,
     previewOverlay |-> NULL, computing |-> FALSE,
     alignmentData |-> NULL, inFlight |-> {}, confirmed |-> NULL,
     undone |-> FALSE, event |-> "mount"]

InitCounty ==
    /\ InitAlign
    /\ proj = NoExperiment
    /\ hom = NoExperiment
    /\ overlay = NoExperiment
    /\ preview = NoExperiment
    /\ region = NoExperiment
    /\ upload = NoExperiment
    /\ county = CountyMounted

CountyFrame == UNCHANGED <<alignVars, proj, hom, overlay, preview, region, upload>>

\* fetchShapefile resolves or fails
CountyFetch(ok) ==
    /\ county.on /\ county.mounted /\ county.loading
    /\ county' = [county EXCEPT !.shapefileData = ok,
                                !.error = IF ok THEN @ ELSE "Failed to fetch shapefile data",
                                !.loading = FALSE,
                                !.event = "fetch"]
    /\ CountyFrame

\* a click on the image container at p (display pixels)
handleImageClick(p) ==
    /\ county.on /\ county.mounted
    /\ LET naturalX == (p[1] * img.naturalWidth) \div img.width
           naturalY == (p[2] * img.naturalHeight) \div img.height
       IN  county' = [county EXCEPT
                        !.selectedPoints =
                            IF Len(@) >= 4 THEN @
                            ELSE Append(@, NewPoint(@, naturalX, naturalY)),
                        !.event = "click"]
    /\ CountyFrame

\* the Undo Last button
handleUndo ==
    /\ county.on /\ county.mounted
    /\ Len(county.selectedPoints) > 0
    /\ county' = [county EXCEPT
                    !.selectedPoints = SubSeq(@, 1, Len(@) - 1),
                    !.previewOverlay = NULL,
                    !.computing = FALSE,
                    !.error = "null",
                    !.undone = TRUE,
                    !.event = "undo"]
    /\ CountyFrame

\* the Reset All button
handleReset ==
    /\ county.on /\ county.mounted
    /\ Len(county.selectedPoints) > 0
    /\ county' = [county EXCEPT
                    !.selectedPoints = << >>,
                    !.previewOverlay = NULL,
                    !.computing = FALSE,
                    !.error = "null",
                    !.event = "reset"]
    /\ CountyFrame

\* the Compute Alignment button: the request leaves with the current points
computeAlignment ==
    /\ county.on /\ county.mounted
    /\ Len(county.selectedPoints) = 4 /\ ~county.computing
    /\ county.previewOverlay = NULL
    /\ county.shapefileData
    /\ Cardinality(county.inFlight) < MaxRequests
    /\ county.selectedPoints \notin county.inFlight
    /\ county' = [county EXCEPT
                    !.computing = TRUE,
                    !.error = "null",
                    !.inFlight = @ \cup {county.selectedPoints},
                    !.event = "compute"]
    /\ CountyFrame

\* the response to the request issued with points req; hasUrl: data.overlayUrl
AlignmentResponse(req, ok, hasUrl) ==
    /\ county.on /\ county.mounted
    /\ req \in county.inFlight
    /\ county' = [county EXCEPT
                    !.inFlight = @ \ {req},
                    !.previewOverlay = IF ok /\ hasUrl THEN Some([from |-> req]) ELSE @,
                    !.alignmentData = IF ok THEN Some([from |-> req]) ELSE @,
                    !.error = IF ok THEN @ ELSE "Failed to compute alignment",
                    !.computing = FALSE,
                    !.event = "response"]
    /\ CountyFrame

\* the Confirm Alignment button; onConfirm closes the component
CountyConfirm ==
    /\ county.on /\ county.mounted
    /\ county.previewOverlay # NULL /\ county.alignmentData # NULL
    /\ county' = [CountyMounted EXCEPT !.confirmed = county.alignmentData,
                                       !.mounted = FALSE,
                                       !.loading = FALSE,
                                       !.event = "confirm"]
    /\ CountyFrame

\* the Cancel button; onCancel closes the component and its state is gone
CountyCancel ==
    /\ county.on /\ county.mounted
    /\ county' = [CountyMounted EXCEPT !.mounted = FALSE, !.loading = FALSE,
                                       !.event = "cancel"]
    /\ CountyFrame

NextCounty ==
    \/ \E ok \in BOOLEAN : CountyFetch(ok)
    \/ \E p \in ClickPx : handleImageClick(p)
    \/ handleUndo
    \/ handleReset
    \/ computeAlignment
    \/ \E req \in county.inFlight, ok \in BOOLEAN, hasUrl \in BOOLEAN :
          AlignmentResponse(req, ok, hasUrl)
    \/ CountyConfirm
    \/ CountyCancel

SpecCounty == InitCounty /\ [][NextCounty]_vars

\* C13: selectedPoints never has more than 4 entries, and the entry at
\* position i (from 0) carries step i and the geoid of SUGGESTED_COUNTIES[i];
\* a click with 4 entries changes nothing, a click with fewer appends one
\* entry, and Undo removes exactly the last entry.
C13_FourTaggedPoints ==
    /\ [](county.on =>
            /\ Len(county.selectedPoints) \in 0..4
            /\ \A i \in 1..Len(county.selectedPoints) :
                  /\ county.selectedPoints[i].step = i - 1
                  /\ county.selectedPoints[i].geoid = SUGGESTED_COUNTIES[i].geoid)
    /\ [][ county.on =>
             LET old == county.selectedPoints
                 new == county'.selectedPoints
             IN  /\ (county'.event = "click" /\ Len(old) = 4) => new = old
                 /\ (county'.event = "click" /\ Len(old) < 4)
                       => (Len(new) = Len(old) + 1 /\ SubSeq(new, 1, Len(old)) = old)
                 /\ county'.event = "undo"
                       => (Len(new) = Len(old) - 1 /\ new = SubSeq(old, 1, Len(new)))
                 /\ county'.event = "reset" => new = << >> ]_vars

\* four points were collected again after an Undo
C13_Witness ==
    /\ county.on /\ county.undone
    /\ county.event = "click"
    /\ Len(county.selectedPoints) = 4

----------------------------------------------------------------------------
(* ConusOverlayPreview: the four draggable corners of the legacy preview *)

\* conusSelection.rect4 handed over by RegionSelector, in natural pixels
PreviewSelections ==
    { << <<100, 100>>, <<300, 100>>, <<300, 200>>, <<100, 200>> >>,
      << <<40, 20>>, <<360, 20>>, <<360, 280>>, <<40, 280>> >> }

\* the rendered image and its natural size
PreviewImage == [width |-> 200, height |-> 150, naturalWidth |-> 400, naturalHeight |-> 300]

\* cursor positions relative to the image, in units of 1/PX px
PreviewPointers ==
    { [x |-> 5025, y |-> 3010], [x |-> 12000, y |-> 7500], [x |-> 2512, y |-> 9987] }

\* [Math.round(x), Math.round(y)] of the cursor scaled to natural pixels
NaturalPixel(p) ==
    << Round(p.x * PreviewImage.naturalWidth, PreviewImage.width * PX),
       Round(p.y * PreviewImage.naturalHeight, PreviewImage.height * PX) >>

\* the corner-drag effect returns early on "!draggingCorner": null and the
\* index 0 register no listener; otherwise the listeners close over the index
CornerListener(dc) ==
    IF dc = NULL THEN NULL
    ELSE IF dc[1] = 0 THEN NULL
    ELSE dc

\* the component after its mount effects, for a selection rect4
PreviewMounted(rect4) ==
    [on |-> TRUE, mounted |-> TRUE, conusSelection |-> rect4,
     transformedRect4 |-> rect4, draggingCorner |-> NULL, listening |-> NULL,
     imageLoaded |-> FALSE, loadFired |-> FALSE, loading |-> FALSE,
     error |-> FALSE, shapefileData |-> FALSE, fetched |-> FALSE, canvas |-> NULL,
     confirmed |-> NULL, event |-> "mount"]

InitPreview ==
    /\ InitAlign
    /\ proj = NoExperiment
    /\ hom = NoExperiment
    /\ overlay = NoExperiment
    /\ county = NoExperiment
    /\ region = NoExperiment
    /\ upload = NoExperiment
    /\ \E rect4 \in PreviewSelections : preview = PreviewMounted(rect4)

PreviewFrame == UNCHANGED <<alignVars, proj, hom, overlay, county, region, upload>>

\* getCornerPositions() gives four positions: the handles are in the page
CornersShown == preview.imageLoaded /\ Len(preview.transformedRect4) = 4

\* the draw effect of a render that went from state old to state new: it only
\* runs when one of its dependencies changed, it returns before touching the
\* canvas unless the shapefile and the image are loaded, and otherwise
\* clears the canvas and draws the overlay for new.transformedRect4
Redrawn(old, new) ==
    IF /\ \/ new.transformedRect4 # old.transformedRect4
          \/ new.shapefileData # old.shapefileData
          \/ new.imageLoaded # old.imageLoaded
       /\ new.shapefileData /\ new.imageLoaded
    THEN [new EXCEPT !.canvas = Some(new.transformedRect4)]
    ELSE new

\* the response of /api/shapefile-geojson; a failure is only logged
PreviewFetch(ok) ==
    /\ preview.on /\ preview.mounted /\ ~preview.shapefileData
    /\ ~preview.fetched
    /\ preview' = Redrawn(preview, [preview EXCEPT !.shapefileData = ok,
                                                   !.fetched = TRUE,
                                                   !.event = "fetch"])
    /\ PreviewFrame

\* the image's onLoad (its src never changes, so it fires once)
PreviewImageLoad ==
    /\ preview.on /\ preview.mounted /\ ~preview.loadFired
    /\ preview' = Redrawn(preview, [preview EXCEPT !.imageLoaded = TRUE, !.loadFired = TRUE,
                                  !.event = "load"])
    /\ PreviewFrame

\* pointer-down on the handle with index i (0..3)
handleCornerMouseDown(i) ==
    /\ preview.on /\ preview.mounted /\ CornersShown
    /\ preview' = [preview EXCEPT
                     !.draggingCorner = Some(i),
                     !.listening = IF preview.draggingCorner = Some(i)
                                   THEN @ ELSE CornerListener(Some(i)),
                     !.event = "down corner"]
    /\ PreviewFrame

\* mousemove on the window at cursor p
PreviewMouseMove(p) ==
    /\ preview.on /\ preview.mounted
    /\ preview' = Redrawn(preview, [preview EXCEPT
                     !.transformedRect4 =
                        IF preview.listening = NULL THEN @
                        ELSE [@ EXCEPT ![preview.listening[1] + 1] = NaturalPixel(p)],
                     !.event = "move"])
    /\ PreviewFrame

\* mouseup on the window
PreviewMouseUp ==
    /\ preview.on /\ preview.mounted
    /\ preview' = [preview EXCEPT
                     !.draggingCorner = IF preview.listening = NULL THEN @ ELSE NULL,
                     !.listening = NULL,
                     !.event = "up"]
    /\ PreviewFrame

\* "Reset to Original"
PreviewReset ==
    /\ preview.on /\ preview.mounted
    /\ preview' = Redrawn(preview, [preview EXCEPT !.transformedRect4 = preview.conusSelection,
                                  !.event = "reset"])
    /\ PreviewFrame

\* "Generate Overlay": the request goes out
handleGenerateOverlay ==
    /\ preview.on /\ preview.mounted /\ ~preview.loading
    /\ preview' = [preview EXCEPT !.loading = TRUE, !.error = FALSE,
                                  !.event = "generate"]
    /\ PreviewFrame

\* the response of /api/preview-overlay-interactive
OverlayResponse(ok) ==
    /\ preview.on /\ preview.mounted /\ preview.loading
    /\ preview' = Redrawn(preview, [preview EXCEPT
                     !.loading = FALSE,
                     !.imageLoaded = IF ok THEN FALSE ELSE @,
                     !.error = ~ok,
                     !.event = "response"])
    /\ PreviewFrame

\* "Confirm": onConfirm({ rect4: transformedRect4 }); the parent unmounts
PreviewConfirm ==
    /\ preview.on /\ preview.mounted
    /\ ~preview.loading /\ ~preview.error
    /\ preview' = [PreviewMounted(preview.conusSelection) EXCEPT
                     !.mounted = FALSE,
                     !.confirmed = Some(preview.transformedRect4),
                     !.event = "confirm"]
    /\ PreviewFrame

\* "Cancel": the parent unmounts the component
PreviewCancel ==
    /\ preview.on /\ preview.mounted
    /\ preview' = [PreviewMounted(preview.conusSelection) EXCEPT
                     !.mounted = FALSE, !.event = "cancel"]
    /\ PreviewFrame

NextPreview ==
    \/ \E ok \in BOOLEAN : PreviewFetch(ok)
    \/ PreviewImageLoad
    \/ \E i \in 0..3 : handleCornerMouseDown(i)
    \/ \E p \in PreviewPointers : PreviewMouseMove(p)
    \/ PreviewMouseUp
    \/ PreviewReset
    \/ handleGenerateOverlay
    \/ \E ok \in BOOLEAN : OverlayResponse(ok)
    \/ PreviewConfirm
    \/ PreviewCancel

SpecPreview == InitPreview /\ [][NextPreview]_vars

\* C18: for every handle index i in 0..3, a pointer move after a pointer-down
\* on handle i sets entry i of transformedRect4 to the pointer in rounded
\* natural pixels and leaves the other entries alone, and the pointer-up that
\* follows sets draggingCorner to null.
C18_EveryCornerDrags ==
    [][/\ \A i \in 0..3 : \A p \in PreviewPointers :
             (preview.draggingCorner = Some(i) /\ PreviewMouseMove(p)) =>
                 preview'.transformedRect4 =
                     [preview.transformedRect4 EXCEPT ![i + 1] = NaturalPixel(p)]
       /\ PreviewMouseUp => preview'.draggingCorner = NULL]_vars

----------------------------------------------------------------------------
(* RegionSelector: the region buttons, the rectangle drag on the image and  *)
(* the show* flags that choose which component is on screen.  Positions on  *)
(* the image are in units of 1/PX px, natural coordinates in 1/PX natural   *)
(* px.  Upload.jsx mounts the selector again after each legend selection.   *)

\* the rendered image and its natural size
RegionImage == [width |-> 200 * PX, height |-> 150 * PX,
                naturalWidth |-> 400, naturalHeight |-> 300]

\* cursor positions relative to the image; the last one is off the image
RegionPointers ==
    { [x |-> 2000, y |-> 2000], [x |-> 12050, y |-> 10025],
      [x |-> 2600, y |-> 2900], [x |-> 25000, y |-> 2500] }

\* what ConusManualAlign and AlaskaManualAlign hand to their onConfirm: the
\* natural corners of the quad x = 40, y = 45, width = 120, height = 60 px of
\* a 200 x 150 image of natural size 400 x 300, unrotated and rotated by
\* atan2(-45, -60) (cos = -0.8, sin = -0.6)
AlignmentParams ==
    { [rect4 |-> << <<80, 90>>, <<320, 90>>, <<320, 210>>, <<80, 210>> >>],
      [rect4 |-> << <<260, 270>>, <<68, 126>>, <<140, 30>>, <<332, 174>> >>] }

InsideImage(p) ==
    p.x >= 0 /\ p.x <= RegionImage.width /\ p.y >= 0 /\ p.y <= RegionImage.height

\* Math.max(0, Math.min(x, rect.width)) on both coordinates
Constrained(p) ==
    [x |-> Max(0, Min(p.x, RegionImage.width)),
     y |-> Max(0, Min(p.y, RegionImage.height))]

\* the selection of a drag from start to end when both sides exceed 10 px,
\* NULL otherwise (handleGlobalMouseUp also clips the rectangle to the image)
ImageSelection(start, end) ==
    LET left == Max(0, Min(Min(start.x, end.x), RegionImage.width))
        top == Max(0, Min(Min(start.y, end.y), RegionImage.height))
        width == Min(Abs(end.x - start.x), RegionImage.width - left)
        height == Min(Abs(end.y - start.y), RegionImage.height - top)
        natLeft == (left * PX * RegionImage.naturalWidth) \div RegionImage.width
        natTop == (top * PX * RegionImage.naturalHeight) \div RegionImage.height
        natWidth == (width * PX * RegionImage.naturalWidth) \div RegionImage.width
        natHeight == (height * PX * RegionImage.naturalHeight) \div RegionImage.height
        natRight == natLeft + natWidth
        natBottom == natTop + natHeight
    IN  IF width > 10 * PX /\ height > 10 * PX
        THEN Some([x |-> natLeft, y |-> natTop, width |-> natWidth, height |-> natHeight,
                   rect4 |-> << <<Round(natLeft, PX), Round(natTop, PX)>>,
                                <<Round(natRight, PX), Round(natTop, PX)>>,
                                <<Round(natRight, PX), Round(natBottom, PX)>>,
                                <<Round(natLeft, PX), Round(natBottom, PX)>> >>])
        ELSE NULL

\* the region entry built from the corners a manual alignment confirmed
AlignedRegion(params) ==
    LET tl == params.rect4[1]
        tr == params.rect4[2]
        br == params.rect4[3]
        bl == params.rect4[4]
        x == Min(tl[1], bl[1])
        y == Min(tl[2], tr[2])
    IN  [x |-> x * PX, y |-> y * PX,
         width |-> (Max(tr[1], br[1]) - x) * PX,
         height |-> (Max(br[2], bl[2]) - y) * PX,
         rect4 |-> params.rect4]

\* the selector as constructed, for an upload id that is set or null
RegionInitial(uploadId) ==
    [on |-> TRUE, mounted |-> TRUE, uploadId |-> uploadId,
     regions |-> [conus |-> NULL, alaska |-> NULL, hawaii |-> NULL],
     currentRegion |-> "null", isSelecting |-> FALSE,
     startPoint |-> NULL, endPoint |-> NULL, cursorPos |-> NULL,
     showConusPreview |-> FALSE, showConusManualAlign |-> FALSE,
     showAlaskaManualAlign |-> FALSE, conusOverlayParams |-> NULL,
     completed |-> NULL, event |-> "mount"]

InitRegion ==
    /\ InitAlign
    /\ proj = NoExperiment
    /\ hom = NoExperiment
    /\ overlay = NoExperiment
    /\ preview = NoExperiment
    /\ county = NoExperiment
    /\ upload = NoExperiment
    /\ \E uploadId \in BOOLEAN : region = RegionInitial(uploadId)

RegionFrame == UNCHANGED <<alignVars, proj, hom, overlay, preview, county, upload>>

\* the component the render function returns
View ==
    IF ~region.mounted THEN "none"
    ELSE IF region.showConusManualAlign /\ region.uploadId THEN "ConusManualAlign"
    ELSE IF region.showAlaskaManualAlign /\ region.uploadId THEN "AlaskaManualAlign"
    ELSE IF region.showConusPreview /\ region.regions.conus # NULL /\ region.uploadId
         THEN "ConusOverlayPreview"
    ELSE "main"

\* "Mark CONUS"
RegionMarkConus ==
    /\ region.on /\ View = "main"
    /\ region' = IF region.currentRegion = "conus"
                 THEN [region EXCEPT !.currentRegion = "null", !.cursorPos = NULL,
                                     !.event = "mark conus"]
                 ELSE [region EXCEPT !.showConusManualAlign = TRUE,
                                     !.event = "mark conus"]
    /\ RegionFrame

\* "Mark Alaska"
RegionMarkAlaska ==
    /\ region.on /\ View = "main"
    /\ region' = IF region.currentRegion = "alaska"
                 THEN [region EXCEPT !.currentRegion = "null", !.cursorPos = NULL,
                                     !.event = "mark alaska"]
                 ELSE [region EXCEPT !.showAlaskaManualAlign = TRUE,
                                     !.event = "mark alaska"]
    /\ RegionFrame

\* "Mark Hawaii": the one button that sets currentRegion
RegionMarkHawaii ==
    /\ region.on /\ View = "main"
    /\ region' = IF region.currentRegion = "hawaii"
                 THEN [region EXCEPT !.currentRegion = "null", !.cursorPos = NULL,
                                     !.event = "mark hawaii"]
                 ELSE [region EXCEPT !.currentRegion = "hawaii",
                                     !.event = "mark hawaii"]
    /\ RegionFrame

\* pointer-down on the image container at p
RegionMouseDown(p) ==
    /\ region.on /\ View = "main"
    /\ region' = IF region.currentRegion # "null" /\ InsideImage(p)
                 THEN [region EXCEPT !.isSelecting = TRUE, !.startPoint = Some(p),
                                     !.endPoint = Some(p), !.event = "down"]
                 ELSE [region EXCEPT !.event = "down"]
    /\ RegionFrame

\* pointer move at p: the container's onMouseMove when p is over the image,
\* and the window listener while a selection is going on
RegionMouseMove(p) ==
    /\ region.on /\ View = "main"
    /\ LET local == InsideImage(p)
           global == region.isSelecting
           cursor == IF InsideImage(p) THEN Some(Constrained(p)) ELSE NULL
       IN  region' = [region EXCEPT
                        !.cursorPos = IF (local /\ region.currentRegion # "null") \/ global
                                      THEN cursor ELSE @,
                        !.endPoint = IF region.isSelecting THEN Some(Constrained(p)) ELSE @,
                        !.event = "move"]
    /\ RegionFrame

\* the state after handleMouseUp (the container's onMouseUp)
AfterLocalMouseUp(r) ==
    IF ~r.isSelecting \/ r.startPoint = NULL \/ r.endPoint = NULL \/ r.currentRegion = "null"
    THEN r
    ELSE LET start == r.startPoint[1]
             end == r.endPoint[1]
             big == /\ Abs(end.x - start.x) > 10 * PX
                    /\ Abs(end.y - start.y) > 10 * PX
         IN  IF big
             THEN [r EXCEPT !.isSelecting = FALSE,
                            !.regions = [@ EXCEPT ![r.currentRegion] =
                                                     ImageSelection(start, end)],
                            !.showConusPreview = IF r.currentRegion = "conus"
                                                 THEN TRUE ELSE @,
                            !.startPoint = NULL, !.endPoint = NULL,
                            !.currentRegion = "null", !.cursorPos = NULL]
             ELSE [r EXCEPT !.isSelecting = FALSE,
                            !.startPoint = NULL, !.endPoint = NULL]

\* the state r after handleGlobalMouseUp, whose closure holds the values of c
AfterGlobalMouseUp(r, c) ==
    IF ~c.isSelecting \/ c.startPoint = NULL \/ c.endPoint = NULL \/ c.currentRegion = "null"
    THEN r
    ELSE LET sel == ImageSelection(c.startPoint[1], c.endPoint[1])
             marked == IF sel = NULL THEN r
                       ELSE [r EXCEPT
                               !.regions = [@ EXCEPT ![c.currentRegion] = sel],
                               !.showConusManualAlign =
                                   IF c.currentRegion = "conus" THEN TRUE ELSE @,
                               !.showAlaskaManualAlign =
                                   IF c.currentRegion = "alaska" THEN TRUE ELSE @]
         IN  [marked EXCEPT !.isSelecting = FALSE, !.startPoint = NULL,
                            !.endPoint = NULL, !.currentRegion = "null",
                            !.cursorPos = NULL]

\* pointer-up.  Over the container handleMouseUp runs first; the window
\* listener then runs with the values it closed over, unless the effect's
\* cleanup has already removed it.  Off the container only the window
\* listener runs.  A crosshair shown during a selection means the last move
\* was over the image, so the pointer-up is over the container too.
RegionMouseUp(over, removed) ==
    /\ region.on /\ View = "main"
    /\ ~over => ~removed
    /\ (region.isSelecting /\ region.cursorPos # NULL) => over
    /\ LET afterLocal == IF over THEN AfterLocalMouseUp(region) ELSE region
           after == IF removed THEN afterLocal
                    ELSE AfterGlobalMouseUp(afterLocal, region)
       IN  region' = [after EXCEPT !.event = "up"]
    /\ RegionFrame

\* "Clear ..." of a marked region
handleClearRegion(name) ==
    /\ region.on /\ View = "main"
    /\ region.regions[name] # NULL
    /\ region' = [region EXCEPT !.regions = [@ EXCEPT ![name] = NULL],
                                !.event = "clear"]
    /\ RegionFrame

\* ConusManualAlign calls onConfirm(params)
handleConusManualAlignConfirm(params) ==
    /\ region.on /\ View = "ConusManualAlign"
    /\ region' = [region EXCEPT
                    !.conusOverlayParams = Some(params),
                    !.showConusManualAlign = FALSE,
                    !.regions = [@ EXCEPT !.conus = Some(AlignedRegion(params))],
                    !.event = "conus aligned"]
    /\ RegionFrame

\* ConusManualAlign calls onCancel()
handleConusManualAlignCancel ==
    /\ region.on /\ View = "ConusManualAlign"
    /\ region' = [region EXCEPT !.showConusManualAlign = FALSE,
                                !.event = "conus cancelled"]
    /\ RegionFrame

\* AlaskaManualAlign calls onConfirm(params)
handleAlaskaManualAlignConfirm(params) ==
    /\ region.on /\ View = "AlaskaManualAlign"
    /\ region' = [region EXCEPT
                    !.showAlaskaManualAlign = FALSE,
                    !.regions = [@ EXCEPT !.alaska = Some(AlignedRegion(params))],
                    !.event = "alaska aligned"]
    /\ RegionFrame

\* AlaskaManualAlign calls onCancel()
handleAlaskaManualAlignCancel ==
    /\ region.on /\ View = "AlaskaManualAlign"
    /\ region' = [region EXCEPT !.showAlaskaManualAlign = FALSE,
                                !.event = "alaska cancelled"]
    /\ RegionFrame

\* "Confirm & Continue": onSelectionComplete(regions); Upload.jsx closes the
\* selector
handleConfirmAll ==
    /\ region.on /\ View = "main"
    /\ region.regions.conus # NULL
    /\ region' = [RegionInitial(region.uploadId) EXCEPT
                    !.mounted = FALSE, !.completed = Some(region.regions),
                    !.event = "confirm all"]
    /\ RegionFrame

\* "Skip": Upload.jsx closes the selector
RegionSkip ==
    /\ region.on /\ View = "main"
    /\ region' = [RegionInitial(region.uploadId) EXCEPT
                    !.mounted = FALSE, !.event = "skip"]
    /\ RegionFrame

\* Upload.jsx shows the selector again after a legend selection
RegionMount ==
    /\ region.on /\ ~region.mounted
    /\ region' = RegionInitial(region.uploadId)
    /\ RegionFrame

NextRegion ==
    \/ RegionMarkConus
    \/ RegionMarkAlaska
    \/ RegionMarkHawaii
    \/ \E p \in RegionPointers : RegionMouseDown(p)
    \/ \E p \in RegionPointers : RegionMouseMove(p)
    \/ \E over, removed \in BOOLEAN : RegionMouseUp(over, removed)
    \/ \E name \in {"conus", "alaska", "hawaii"} : handleClearRegion(name)
    \/ \E params \in AlignmentParams : handleConusManualAlignConfirm(params)
    \/ handleConusManualAlignCancel
    \/ \E params \in AlignmentParams : handleAlaskaManualAlignConfirm(params)
    \/ handleAlaskaManualAlignCancel
    \/ handleConfirmAll
    \/ RegionSkip
    \/ RegionMount

\* a user who keeps trying every control that is on screen
FairRegion ==
    /\ SF_vars(RegionMarkConus)
    /\ SF_vars(RegionMarkAlaska)
    /\ SF_vars(RegionMarkHawaii)
    /\ SF_vars(\E p \in RegionPointers : RegionMouseDown(p))
    /\ SF_vars(\E p \in RegionPointers : RegionMouseMove(p))
    /\ SF_vars(\E over, removed \in BOOLEAN : RegionMouseUp(over, removed))
    /\ SF_vars(\E name \in {"conus", "alaska", "hawaii"} : handleClearRegion(name))
    /\ SF_vars(\E params \in AlignmentParams : handleConusManualAlignConfirm(params))
    /\ SF_vars(handleConusManualAlignCancel)
    /\ SF_vars(\E params \in AlignmentParams : handleAlaskaManualAlignConfirm(params))
    /\ SF_vars(handleAlaskaManualAlignCancel)
    /\ SF_vars(handleConfirmAll)
    /\ SF_vars(RegionSkip)
    /\ SF_vars(RegionMount)

SpecRegion == InitRegion /\ [][NextRegion]_vars /\ FairRegion

\* the manual-align component is on screen
ManualAlignShown == View = "ConusManualAlign"

\* the flag of the legacy preview is set and a CONUS region is marked
PreviewShown == region.showConusPreview /\ region.regions.conus # NULL

\* C15: with an upload id, the user's events bring the manual-align
\* component on screen, and they bring up the legacy four-corner preview
\* (showConusPreview true with a CONUS region marked).
C15_BothStrategiesShown ==
    region.uploadId => (<>ManualAlignShown /\ <>PreviewShown)

\* currentRegion is never "conus", so the flag of the legacy preview stays off
PreviewNeverShown == ~region.showConusPreview /\ region.currentRegion # "conus"

----------------------------------------------------------------------------
(* Further claims about ConusManualAlign *)

ZeroExtent ==
    /\ shapefileData # NULL
    /\ \/ shapefileData[1].bounds.xmax = shapefileData[1].bounds.xmin
       \/ shapefileData[1].bounds.ymax = shapefileData[1].bounds.ymin

\* C12: with bounds of zero width or zero height no quad is seeded and
\* nothing is handed to onConfirm.
C12_ZeroExtentBlocks ==
    ZeroExtent => (rect = NULL /\ confirmed = NULL)

InsideClosed(p) ==
    /\ rect # NULL
    /\ LET l == globalToLocal(p.x, p.y, rect[1], rotation)
       IN  /\ Abs(l.x) <= 5 * rect[1].width
           /\ Abs(l.y) <= 5 * rect[1].height

\* C19: the whole-shape drag is armed only by a pointer-down on the container
\* inside the rotated quad; a pointer-down on a corner or rotation handle
\* leaves isDraggingShapefile and dragStart alone; a pointer-down outside the
\* quad changes no drag flag, and not rect, rotation or dragStart.
C19_WholeDragArming ==
    [][/\ event' \in {"down corner", "down rotation"} =>
             /\ isDraggingShapefile' = isDraggingShapefile
             /\ dragStart' = dragStart
       /\ (isDraggingShapefile' /\ ~isDraggingShapefile) =>
             /\ event' = "down image"
             /\ draggingCorner = "null" /\ ~draggingRotationHandle
             /\ \E p \in Pointers : ShapefileMouseDown(p) /\ InsideClosed(p)
       /\ \A p \in Pointers :
             (ShapefileMouseDown(p) /\ ~InsideClosed(p)) =>
                 /\ UNCHANGED <<draggingCorner, draggingRotationHandle,
                                isDraggingShapefile, dragStart, rect, rotation>>
                 /\ Idle => Idle']_vars

\* a pointer-down outside a rotated quad that left the controller idle
C19_Witness ==
    /\ event = "down image"
    /\ rect # NULL
    /\ rotation # <<5, 0>>
    /\ Idle
    /\ \E p \in Pointers : ~InsideClosed(p)

\* angle is the direction from the quad's center to the cursor
\* (0 degrees when the cursor is on the center, as Math.atan2(0, 0) is 0)
PointsAt(angle, cursor) ==
    LET cx == 2 * rect[1].x + rect[1].width
        cy == 2 * rect[1].y + rect[1].height
        dx == 2 * cursor.x - cx
        dy == 2 * cursor.y - cy
    IN  IF dx = 0 /\ dy = 0 THEN angle = <<5, 0>>
        ELSE /\ dx * angle[2] = dy * angle[1]
             /\ dx * angle[1] + dy * angle[2] > 0

\* C20: while only the rotation handle is dragged, a pointer move sets the
\* rotation to the direction from the quad's center to the pointer, whatever
\* that direction is, and leaves x, y, width and height as they were.
C20_RotationFollowsPointer ==
    [][(OnlyRotation /\ event' = "move") =>
          /\ rect' = rect
          /\ \E p \in Pointers : MouseMove(p) /\ PointsAt(rotation', p)]_vars

\* a rotation drag that has turned the quad beyond a quarter turn
C20_Witness ==
    /\ event = "move"
    /\ OnlyRotation
    /\ rect # NULL
    /\ rotation[1] < 0 /\ rotation[2] # 0

----------------------------------------------------------------------------
(* Claims about computeHomography together with applyHomography *)

\* no three of the four points are on one line
NonDegenerate(q) ==
    \A i, j, k \in 1..4 :
        (i < j /\ j < k) =>
            (q[j][1] - q[i][1]) * (q[k][2] - q[i][2])
                # (q[k][1] - q[i][1]) * (q[j][2] - q[i][2])

\* a tenth of a pixel
PixelTolerance == <<1, 10>>

\* the rational r is within PixelTolerance of the whole number n
CloseTo(r, n) ==
    LET d == RAdd(r, RInt(-n))
    IN  PixelTolerance[2] * Abs(d[1]) <= PixelTolerance[1] * d[2]

\* C17: for four correspondences with no three points on a line, the matrix
\* computeHomography returns sends every source point, through
\* applyHomography, to within a tenth of a pixel of its destination point.
C17_SolvesCorrespondences ==
    (hom.on /\ hom.pc = "returned"
       /\ NonDegenerate(hom.src4) /\ NonDegenerate(hom.dst4))
    => \A i \in 1..4 :
          LET q == applyHomography(hom.src4[i][1], hom.src4[i][2], hom.result[1].H)
          IN  /\ CloseTo(q.x, hom.dst4[i][1])
              /\ CloseTo(q.y, hom.dst4[i][2])

----------------------------------------------------------------------------
(* ConusManualAlign.jsx: where the rotation handle is rendered *)

\* the handle's distance from the top edge, in px
HANDLE_OFFSET == 30

\* (handleX, handleY) for the quad r rotated by angle, in twentieths of a
\* unit: the midpoint of TL-TR plus (-30 sin, -30 cos) px
RotationHandle(r, angle) ==
    LET corners == getRotatedCorners(r, angle)
        topMiddleX == corners[1][1] + corners[2][1]
        topMiddleY == corners[1][2] + corners[2][2]
        offsetX == -(HANDLE_OFFSET * PX * 20 * angle[2]) \div 5
        offsetY == -(HANDLE_OFFSET * PX * 20 * angle[1]) \div 5
    IN  [x |-> topMiddleX + offsetX, y |-> topMiddleY + offsetY]

\* the handle's displacement from the midpoint of the top edge, in px
HandleDisplacement ==
    LET corners == getCorners
        h == RotationHandle(rect, rotation)
    IN  [x |-> (h.x - (corners[1][1] + corners[2][1])) \div (20 * PX),
         y |-> (h.y - (corners[1][2] + corners[2][2])) \div (20 * PX)]

\* the vector from the quad's center to the midpoint of the top edge, in
\* twentieths of a unit
CenterToTopMiddle ==
    LET corners == getCorners
        c == getRectCenter(rect[1])
    IN  [x |-> corners[1][1] + corners[2][1] - 10 * c.x,
         y |-> corners[1][2] + corners[2][2] - 10 * c.y]

\* C21: whenever the rotation handle of a quad of positive height is
\* rendered, it is 30 px from the midpoint of the rotated top edge, on the
\* ray from the quad's center through that midpoint.
C21_HandleAlongUp ==
    (mounted /\ HandlesRendered /\ rect # NULL /\ rect[1].height > 0) =>
        LET d == HandleDisplacement
            u == CenterToTopMiddle
        IN  /\ d.x * d.x + d.y * d.y = HANDLE_OFFSET * HANDLE_OFFSET
            /\ d.x * u.y = d.y * u.x
            /\ d.x * u.x + d.y * u.y > 0

----------------------------------------------------------------------------
(* Claims about the canvas of ConusOverlayPreview *)

\* C22: after a pointer move or the pointer-up that ends a drag, the overlay
\* on the canvas of ConusOverlayPreview is the one drawn for the current
\* transformedRect4.
C22_CanvasShowsFinalState ==
    (preview.on /\ preview.mounted /\ preview.event \in {"move", "up"}
       /\ preview.canvas # NULL)
    => preview.canvas = Some(preview.transformedRect4)

----------------------------------------------------------------------------
(* Claims about the rectangle drag of RegionSelector *)

\* the drag from start to end is more than 10 px wide and high
BigDrag(start, end) ==
    Abs(end.x - start.x) > 10 * PX /\ Abs(end.y - start.y) > 10 * PX

\* the rectangle between start and end in natural pixels, with its corners
\* TL, TR, BR, BL rounded to whole pixels
NaturalRectangle(start, end) ==
    LET kx == (RegionImage.naturalWidth * PX) \div RegionImage.width
        ky == (RegionImage.naturalHeight * PX) \div RegionImage.height
        l == kx * Min(start.x, end.x)
        t == ky * Min(start.y, end.y)
        r == kx * Max(start.x, end.x)
        b == ky * Max(start.y, end.y)
    IN  [x |-> l, y |-> t, width |-> r - l, height |-> b - t,
         rect4 |-> << <<Round(l, PX), Round(t, PX)>>, <<Round(r, PX), Round(t, PX)>>,
                      <<Round(r, PX), Round(b, PX)>>, <<Round(l, PX), Round(b, PX)>> >>]

\* a pointer-up ends a rectangle drag
DragEnds ==
    /\ region.mounted /\ region.isSelecting /\ region.currentRegion # "null"
    /\ region.startPoint # NULL /\ region.endPoint # NULL
    /\ region'.event = "up"

\* C23: the pointer-up that ends a rectangle drag stores the rectangle, in
\* natural pixels with rect4 in TL, TR, BR, BL order, under the current
\* region when the drag is more than 10 px wide and high; otherwise it leaves
\* regions unchanged and currentRegion armed.  This holds for a pointer-up
\* inside and outside the image container.
C23_DragThreshold ==
    [][DragEnds =>
         LET start == region.startPoint[1]
             end == region.endPoint[1]
         IN  IF BigDrag(start, end)
             THEN region'.regions =
                      [region.regions EXCEPT ![region.currentRegion] =
                                                 Some(NaturalRectangle(start, end))]
             ELSE /\ region'.regions = region.regions
                  /\ region'.currentRegion = region.currentRegion]_vars

\* the same without the requirement that currentRegion stays armed
C23_DragThresholdRegions ==
    [][DragEnds =>
         LET start == region.startPoint[1]
             end == region.endPoint[1]
         IN  IF BigDrag(start, end)
             THEN region'.regions =
                      [region.regions EXCEPT ![region.currentRegion] =
                                                 Some(NaturalRectangle(start, end))]
             ELSE region'.regions = region.regions]_vars

----------------------------------------------------------------------------
(* Claims about the drag modes of ConusManualAlign *)

\* C24: in every reachable state at most one of the three drag modes is
\* armed: a corner drag, the rotation drag, the whole-shape drag.
C24_OneDragMode ==
    /\ ~(draggingCorner # "null" /\ draggingRotationHandle)
    /\ ~(draggingCorner # "null" /\ isDraggingShapefile)
    /\ ~(draggingRotationHandle /\ isDraggingShapefile)

\* dy and dx of the move handler for a pointer on the center of the rendered
\* rotation handle, in twentieths of a unit
HandleFromCenter ==
    LET h == RotationHandle(rect, rotation)
        c == getRectCenter(rect[1])
    IN  [dy |-> h.y - 10 * c.y, dx |-> h.x - 10 * c.x]

\* C25: during a rotation drag, the rotation the move handler computes for a
\* pointer at the place where the rotation handle is rendered is the current
\* rotation.
C25_GrabKeepsRotation ==
    (mounted /\ HandlesRendered /\ rect # NULL /\ draggingRotationHandle
       /\ HasAtan2(HandleFromCenter.dy, HandleFromCenter.dx))
    => Atan2(HandleFromCenter.dy, HandleFromCenter.dx) = rotation

----------------------------------------------------------------------------
(* Claims about the region entries of RegionSelector *)

\* the smallest and the largest of the x (k = 1) or y (k = 2) coordinates of
\* the four corners, in natural pixels
LeastOf(rect4, k) == CHOOSE v \in {rect4[i][k] : i \in 1..4} : \A i \in 1..4 : v <= rect4[i][k]
MostOf(rect4, k) == CHOOSE v \in {rect4[i][k] : i \in 1..4} : \A i \in 1..4 : v >= rect4[i][k]

\* the entry e is the axis-aligned bounding box of its rect4
IsBoundingBox(e) ==
    /\ e.x = PX * LeastOf(e.rect4, 1)
    /\ e.y = PX * LeastOf(e.rect4, 2)
    /\ e.width = PX * (MostOf(e.rect4, 1) - LeastOf(e.rect4, 1))
    /\ e.height = PX * (MostOf(e.rect4, 2) - LeastOf(e.rect4, 2))
    /\ e.width >= 0 /\ e.height >= 0

\* C26: the CONUS and Alaska entries, which only a confirmed manual alignment
\* stores, have x, y, width and height equal to the axis-aligned bounding box
\* of their rect4, so width and height are not negative.
C26_EntryIsBoundingBox ==
    \A name \in {"conus", "alaska"} :
        (region.on /\ region.regions[name] # NULL) => IsBoundingBox(region.regions[name][1])

----------------------------------------------------------------------------
(* Claims about the compute requests of ConusCountySelector *)

\* C27: whenever the Confirm Alignment button is available, alignmentData and
\* previewOverlay come from a compute request issued with exactly the points
\* that are selected now.
C27_ConfirmableIsCurrent ==
    (county.on /\ county.mounted
       /\ county.previewOverlay # NULL /\ county.alignmentData # NULL)
    => /\ county.previewOverlay[1].from = county.selectedPoints
       /\ county.alignmentData[1].from = county.selectedPoints

----------------------------------------------------------------------------
\* Upload: the session of the upload page.  A value derived from an image
\* is written as the file it was derived from: the uploadId that bounds
\* detection returns for file f is f, a legend selection drawn on the image
\* of file f is f, an overlay preview generated for uploadId f is f.

MaxFiles == 2
MaxInFlight == 2

Files == 1 .. MaxFiles

\* regionSelections of handleSkipRegions: { alaska: null, hawaii: null }
NoRegions == 0

ProcessStages == {"upload", "geojson"}
ProcessRequests == [file : Files, uploadId : Files, stage : ProcessStages]

\* the bag b with one more, or one fewer, request k
Issued(b, k) == [b EXCEPT ![k] = @ + 1]
Answered(b, k) == [b EXCEPT ![k] = @ - 1]

RECURSIVE InFlightOver(_, _)
InFlightOver(b, keys) ==
    IF keys = {} THEN 0
    ELSE LET k == CHOOSE x \in keys : TRUE
         IN b[k] + InFlightOver(b, keys \ {k})

InFlight(b) == InFlightOver(b, DOMAIN b)

UploadInitial ==
    [on |-> TRUE,
     uploadedFile |-> NULL,
     uploadedImageUrl |-> NULL,
     geojson |-> NULL,
     legendSelection |-> NULL,
     regionSelections |-> NULL,
     uploadId |-> NULL,
     overlayUrl |-> NULL,
     autoBounds |-> NULL,
     previewOverlayUrl |-> NULL,
     isGeneratingPreview |-> FALSE,
     isLoading |-> FALSE,
     isDetecting |-> FALSE,
     showImageSelector |-> FALSE,
     showRegionSelector |-> FALSE,
     detecting |-> [f \in Files |-> 0],       \* detectBounds calls in flight
     previewing |-> NULL,                     \* generateOverlayPreview in flight
     processing |-> [r \in ProcessRequests |-> 0],   \* uploadImage calls in flight
     event |-> "init"]

InitUpload ==
    /\ InitAlign
    /\ proj = NoExperiment
    /\ hom = NoExperiment
    /\ overlay = NoExperiment
    /\ preview = NoExperiment
    /\ county = NoExperiment
    /\ region = NoExperiment
    /\ upload = UploadInitial

UploadFrame == UNCHANGED <<alignVars, proj, hom, overlay, preview, county, region>>

\* the requests awaiting their response
Pending ==
    InFlight(upload.detecting) + InFlight(upload.processing)
       + (IF upload.previewing # NULL THEN 1 ELSE 0)

\* a modal covers the page: its buttons cannot be clicked
ImageSelectorShown == upload.showImageSelector /\ upload.uploadedImageUrl # NULL
RegionSelectorShown == upload.showRegionSelector /\ upload.uploadedImageUrl # NULL
ModalShown == ImageSelectorShown \/ RegionSelectorShown

\* the file input fires onChange when its value changes
handleFileSelect(f) ==
    /\ upload.on /\ ~ModalShown
    /\ upload.uploadedFile # Some(f)
    /\ Pending < MaxInFlight
    /\ upload' = [upload EXCEPT !.uploadedFile = Some(f),
                                !.geojson = NULL,
                                !.legendSelection = NULL,
                                !.regionSelections = NULL,
                                !.uploadId = NULL,
                                !.overlayUrl = NULL,
                                !.autoBounds = NULL,
                                !.isDetecting = TRUE,
                                !.uploadedImageUrl = Some(f),
                                !.detecting = Issued(@, f),
                                !.event = "select"]
    /\ UploadFrame

\* the continuation of handleFileSelect after await detectBounds(file)
DetectResponse(f, ok) ==
    /\ upload.on /\ upload.detecting[f] > 0
    /\ upload' = [upload EXCEPT !.uploadId = IF ok THEN Some(f) ELSE NULL,
                                !.autoBounds = IF ok THEN Some(f) ELSE NULL,
                                !.overlayUrl = NULL,
                                !.isDetecting = FALSE,
                                !.detecting = Answered(@, f),
                                !.event = "detected"]
    /\ UploadFrame

\* the "Select Legend Area" button
OpenImageSelector ==
    /\ upload.on /\ ~ModalShown
    /\ upload.uploadedFile # NULL
    /\ ~(upload.isDetecting \/ upload.uploadId = NULL)
    /\ upload' = [upload EXCEPT !.showImageSelector = TRUE, !.event = "legend"]
    /\ UploadFrame

handleLegendSelection ==
    /\ upload.on /\ ImageSelectorShown
    /\ upload' = [upload EXCEPT !.legendSelection = upload.uploadedImageUrl,
                                !.showImageSelector = FALSE,
                                !.showRegionSelector = TRUE,
                                !.event = "legendSelected"]
    /\ UploadFrame

CloseImageSelector ==
    /\ upload.on /\ ImageSelectorShown
    /\ upload' = [upload EXCEPT !.showImageSelector = FALSE, !.event = "legendClosed"]
    /\ UploadFrame

handleRegionSelection ==
    /\ upload.on /\ RegionSelectorShown /\ ~ImageSelectorShown
    /\ upload' = [upload EXCEPT !.regionSelections = upload.uploadedImageUrl,
                                !.showRegionSelector = FALSE,
                                !.event = "regions"]
    /\ UploadFrame

handleSkipRegions ==
    /\ upload.on /\ RegionSelectorShown /\ ~ImageSelectorShown
    /\ upload' = [upload EXCEPT !.regionSelections = Some(NoRegions),
                                !.showRegionSelector = FALSE,
                                !.event = "skip"]
    /\ UploadFrame

\* the "Preview Overlay" button
handleGeneratePreview ==
    /\ upload.on /\ ~ModalShown
    /\ upload.uploadedFile # NULL /\ upload.legendSelection # NULL
    /\ ~(upload.isGeneratingPreview \/ upload.uploadId = NULL)
    /\ Pending < MaxInFlight
    /\ upload' = [upload EXCEPT !.isGeneratingPreview = TRUE,
                                !.previewing = upload.uploadId,
                                !.event = "preview"]
    /\ UploadFrame

\* the continuation of handleGeneratePreview after await generateOverlayPreview
PreviewResponse(ok) ==
    /\ upload.on /\ upload.previewing # NULL
    /\ upload' = [upload EXCEPT !.previewOverlayUrl = IF ok THEN upload.previewing ELSE @,
                                !.isGeneratingPreview = FALSE,
                                !.previewing = NULL,
                                !.event = "previewed"]
    /\ UploadFrame

\* the "Process Image" button
handleProcessImage ==
    /\ upload.on /\ ~ModalShown
    /\ upload.uploadedFile # NULL /\ upload.legendSelection # NULL
    /\ ~(upload.isLoading \/ upload.isDetecting \/ upload.uploadId = NULL)
    /\ Pending < MaxInFlight
    /\ upload' = [upload EXCEPT
                     !.isLoading = TRUE,
                     !.processing = Issued(@, [file |-> upload.uploadedFile[1],
                                                uploadId |-> upload.uploadId[1],
                                                stage |-> "upload"]),
                     !.event = "process"]
    /\ UploadFrame

\* the continuation of handleProcessImage after await uploadImage: the
\* response carries an error, or an uploadId, or neither, or the call fails
ProcessResponse(r, outcome) ==
    /\ upload.on /\ r.stage = "upload" /\ upload.processing[r] > 0
    /\ upload' =
         IF outcome \in {"error", "fail"}
         THEN [upload EXCEPT !.isLoading = FALSE,
                             !.processing = Answered(@, r),
                             !.event = "processFailed"]
         ELSE [upload EXCEPT !.uploadId = IF outcome = "id" THEN Some(r.uploadId) ELSE @,
                             !.processing = Issued(Answered(@, r),
                                                   [r EXCEPT !.stage = "geojson"]),
                             !.event = "processed"]
    /\ UploadFrame

\* the continuation of handleProcessImage after await fetchGeoJSON(layer)
GeoJsonResponse(r, ok) ==
    /\ upload.on /\ r.stage = "geojson" /\ upload.processing[r] > 0
    /\ upload' = [upload EXCEPT !.geojson = IF ok THEN Some(r.uploadId) ELSE @,
                                !.isLoading = FALSE,
                                !.processing = Answered(@, r),
                                !.event = "layer"]
    /\ UploadFrame

handleCancel ==
    /\ upload.on /\ ~ModalShown
    /\ upload' = [upload EXCEPT !.uploadedImageUrl = NULL,
                                !.uploadedFile = NULL,
                                !.geojson = NULL,
                                !.legendSelection = NULL,
                                !.regionSelections = NULL,
                                !.uploadId = NULL,
                                !.overlayUrl = NULL,
                                !.autoBounds = NULL,
                                !.showImageSelector = FALSE,
                                !.showRegionSelector = FALSE,
                                !.isLoading = FALSE,
                                !.isDetecting = FALSE,
                                !.event = "cancel"]
    /\ UploadFrame

NextUpload ==
    \/ \E f \in Files : handleFileSelect(f)
    \/ \E f \in Files, ok \in BOOLEAN : DetectResponse(f, ok)
    \/ OpenImageSelector
    \/ handleLegendSelection
    \/ CloseImageSelector
    \/ handleRegionSelection
    \/ handleSkipRegions
    \/ handleGeneratePreview
    \/ \E ok \in BOOLEAN : PreviewResponse(ok)
    \/ handleProcessImage
    \/ \E r \in ProcessRequests, outcome \in {"error", "fail", "id", "noId"} :
          ProcessResponse(r, outcome)
    \/ \E r \in ProcessRequests, ok \in BOOLEAN : GeoJsonResponse(r, ok)
    \/ handleCancel

SpecUpload == InitUpload /\ [][NextUpload]_vars

\* C28: a processing request carries the uploadId that bounds detection
\* returned for the file it sends, and isDetecting is true for as long as a
\* detection request for the currently selected file is in flight.
C28_ProcessingUsesCurrentDetection ==
    upload.on =>
       /\ \A r \in ProcessRequests :
             (r.stage = "upload" /\ upload.processing[r] > 0)
                => r.uploadId = r.file
       /\ \A f \in Files :
             (upload.uploadedFile = Some(f) /\ upload.detecting[f] > 0)
                => upload.isDetecting

\* the two halves of C28
C28_SentUploadId ==
    upload.on =>
       \A r \in ProcessRequests :
          (r.stage = "upload" /\ upload.processing[r] > 0) => r.uploadId = r.file

C28_DetectingWhileInFlight ==
    upload.on =>
       \A f \in Files :
          (upload.uploadedFile = Some(f) /\ upload.detecting[f] > 0)
             => upload.isDetecting

\* C30: right after Cancel, and right after a new file is selected, geojson,
\* legendSelection, regionSelections, uploadId, overlayUrl, autoBounds and
\* previewOverlayUrl are all cleared, so no overlay preview of the previous
\* image is on the page.
C30_PreviousImageCleared ==
    (upload.on /\ upload.event \in {"cancel", "select"}) =>
       /\ upload.geojson = NULL
       /\ upload.legendSelection = NULL
       /\ upload.regionSelections = NULL
       /\ upload.uploadId = NULL
       /\ upload.overlayUrl = NULL
       /\ upload.autoBounds = NULL
       /\ upload.previewOverlayUrl = NULL

\* the part of C30 about the six values the two handlers do reset
C30_SixCleared ==
    (upload.on /\ upload.event \in {"cancel", "select"}) =>
       /\ upload.geojson = NULL
       /\ upload.legendSelection = NULL
       /\ upload.regionSelections = NULL
       /\ upload.uploadId = NULL
       /\ upload.overlayUrl = NULL
       /\ upload.autoBounds = NULL

----------------------------------------------------------------------------
\* C29: two calls of computeHomography with the same src4 and dst4 return
\* the same matrix.
C29_SameMatrixTwice ==
    (hom.on /\ hom.pc = "returned" /\ hom.previous # NULL)
    => hom.result = hom.previous

====
